---- MODULE Spec2Model ----
(***************************************************************************)
(* A model of the MISLG Tools node package:                                *)
(*   - InstantPreviewImageLoader (instant_preview_loader.py): load_image    *)
(*     with its three modes, the refresh conditions, the cache policy and   *)
(*     the directory monitor;                                               *)
(*   - VAEDecoderOptimizer (vae_optimizer.py): optimized_decode and         *)
(*     ensure_compatible_output / fix_final_shape;                          *)
(*   - AdvancedImageSaver (image_converter.py): save_images and             *)
(*     get_next_sequence_number;                                            *)
(*   - the nodes without state: the model unloaders, the switches, the      *)
(*     output nodes, ImageDataTypeFix, and the registration of the package. *)
(* String values of the user interface are written as ASCII tokens; the     *)
(* original text is given where a token is introduced.                      *)
(***************************************************************************)
EXTENDS Integers, Sequences, FiniteSets, TLC

VARIABLES
    \* ---- the world of InstantPreviewImageLoader
    now,                \* the wall clock read by time.time() and stamped on files
    disk,               \* the monitored directory "dir": file -> [ver, mtime]
    inputDir,           \* copies made by the upload mode in the input directory
    cache,              \* self.cache: key -> [ver, mask]
    monitor_cache,      \* self.monitor_cache: directory -> [files, timestamp]
    last_refresh,       \* self.last_refresh
    last_auto_refresh,  \* self.last_auto_refresh
    monitor_last_file,  \* self.monitor_last_file
    monitor_last_time,  \* self.monitor_last_time
    out,                \* what the last load_image call returned
    snapshot,           \* history: the newest files when the list was last read
    \* ---- VAEDecoderOptimizer
    vaeCall,            \* the call made: the function, its tensor, its flags
    vaeResult,          \* what the call returned
    \* ---- AdvancedImageSaver
    saveDirs,           \* the directories that exist under the output directory
    saveFiles,          \* the files of the save directory: name -> content
    saveCall,           \* the last save_images call: its inputs
    saveResult,         \* what it returned, and the files it wrote
    \* ---- the nodes that keep no state
    nodeCall,           \* the call made: the node function and its inputs
    nodeResult          \* what the call returned, and what it did on the way

loaderVars == <<now, disk, inputDir, cache, monitor_cache, last_refresh,
                last_auto_refresh, monitor_last_file, monitor_last_time, out,
                snapshot>>

vaeVars == <<vaeCall, vaeResult>>

saverVars == <<saveDirs, saveFiles, saveCall, saveResult>>

nodeVars == <<nodeCall, nodeResult>>

vars == <<loaderVars, vaeVars, saverVars, nodeVars>>

-----------------------------------------------------------------------------
(* Bounds of the model.                                                    *)

\* the clock value when the node is constructed (time.time() is far from 0)
StartTime == 2
\* how many times the clock advances
MaxTicks == 1
\* how many times files are written after construction
MaxWrites == 1
\* how many copies the upload mode makes
MaxUploads == 2

-----------------------------------------------------------------------------
(* InstantPreviewImageLoader: the file system it looks at.                  *)

None == "None"

\* SUPPORTED_EXT, in the order the code globs them
SUPPORTED_EXT == <<".png", ".jpg", ".jpeg", ".webp", ".bmp", ".tiff", ".tif", ".gif">>

\* the files that may appear in the monitored directory "dir"
Files == {"dir/a.png", "dir/b.jpg", "dir/n.txt"}

\* os.path.splitext(path)[1].lower()
FileExt(f) ==
    CASE f = "dir/a.png" -> ".png"
      [] f = "dir/b.jpg" -> ".jpg"
      [] f = "dir/n.txt" -> ".txt"
      [] OTHER -> ""

\* str.strip() on the values of the 外部路径 input
Strip(p) ==
    CASE p = " " -> ""
      [] p = " dir " -> "dir"
      [] OTHER -> p

\* os.path.exists / os.path.isfile / os.path.isdir on the current disk
PathExists(d, p) == p = "dir" \/ (p \in Files /\ d[p].ver > 0)
PathIsFile(d, p) == p \in Files /\ d[p].ver > 0
PathIsDir(d, p) == p = "dir"

\* os.path.getmtime
GetMTime(d, f) == d[f].mtime

SeqRange(s) == {s[i] : i \in 1..Len(s)}

\* glob.glob(os.path.join(directory, "*" + ext)): the existing files of "dir"
\* with that extension, in the order the operating system lists them
RECURSIVE SetAsSeq(_)
SetAsSeq(S) ==
    IF S = {} THEN <<>>
    ELSE LET x == CHOOSE y \in S : TRUE IN <<x>> \o SetAsSeq(S \ {x})

Glob(d, directory, ext) ==
    IF directory = "dir"
    THEN SetAsSeq({f \in Files : d[f].ver > 0 /\ FileExt(f) = ext})
    ELSE <<>>

\* list.sort(key=os.path.getmtime, reverse=True): a stable sort, newest first;
\* files with equal times keep the order they were found in
RECURSIVE InsertDesc(_, _, _)
InsertOldestFirst(d, x, s) ==
    IF s = <<>> THEN <<x>>
    ELSE IF GetMTime(d, Head(s)) <= GetMTime(d, x)
         THEN <<Head(s)>> \o InsertDesc(d, x, Tail(s))
         ELSE <<x>> \o s
InsertDesc(d, x, s) ==
    IF s = <<>> THEN <<x>>
    ELSE IF GetMTime(d, Head(s)) >= GetMTime(d, x)
         THEN <<Head(s)>> \o InsertDesc(d, x, Tail(s))
         ELSE <<x>> \o s

RECURSIVE SortByMTimeDesc(_, _)
SortByMTimeDesc(d, s) ==
    IF s = <<>> THEN <<>>
    ELSE InsertDesc(d, s[Len(s)], SortByMTimeDesc(d, SubSeq(s, 1, Len(s) - 1)))

RECURSIVE GlobAll(_, _, _)
GlobAll(d, directory, i) ==
    IF i > Len(SUPPORTED_EXT) THEN <<>>
    ELSE Glob(d, directory, SUPPORTED_EXT[i]) \o GlobAll(d, directory, i + 1)

\* _get_directory_files(directory_path, limit)
GetDirectoryFiles(d, directory_path, limit) ==
    IF ~(PathExists(d, directory_path) /\ PathIsDir(d, directory_path))
    THEN <<>>
    ELSE LET files == SortByMTimeDesc(d, GlobAll(d, directory_path, 1))
         IN  IF limit > 0 /\ Len(files) > limit
             THEN SubSeq(files, 1, limit)
             ELSE files

-----------------------------------------------------------------------------
(* InstantPreviewImageLoader: values.                                      *)

\* the 操作模式 input: 预览模式, 上传模式, 目录监控模式
PreviewMode == "preview"
UploadMode == "upload"
MonitorMode == "monitor"
Modes == {PreviewMode, UploadMode, MonitorMode}

\* the 缓存策略 input: 智能缓存, 始终刷新, 禁用缓存
SmartCache == "smart"
AlwaysRefresh == "always"
NoCache == "nocache"
CachePolicies == {SmartCache, AlwaysRefresh, NoCache}

\* the 遮罩操作 input: 使用外部遮罩, 覆盖外部遮罩, 忽略外部遮罩
UseExternalMask == "use"
CoverExternalMask == "cover"
IgnoreExternalMask == "ignore"

\* a file name of the input directory: <<base, k>> is base for k = 0 and
\* f"{name}_{k}{ext}" for k > 0
NoName == <<"", 0>>
Name(base) == <<base, 0>>

\* the image tensor read from a file: which file, and which of its contents
FileImage(name, ver) == [kind |-> "file", name |-> name, ver |-> ver]
\* the mask generated from the file (its alpha channel, or all ones)
OriginalMask(name, ver) == [kind |-> "original", name |-> name, ver |-> ver]
\* the mask given on 外部遮罩输入; dims is len(external_mask.shape)
ExternalMask(dims) == [kind |-> "external", dims |-> dims]

\* 外部遮罩输入 not connected (None)
NoExternalMask == [kind |-> "none", dims |-> 0]

\* torch.zeros((1, 512, 512, 3), dtype=torch.float32)
EmptyImage == [kind |-> "zeros", shape |-> <<1, 512, 512, 3>>, dtype |-> "float32"]
\* torch.ones((1, 512, 512), dtype=torch.float32)
EmptyMask == [kind |-> "ones", shape |-> <<1, 512, 512>>, dtype |-> "float32"]

\* _create_empty_output(error_message): the returned tuple; `how` records,
\* for the properties, whether the call failed, read a file or used the cache
CreateEmptyOutputNoMask(error_message) ==
    [image |-> EmptyImage, mask |-> [EmptyMask EXCEPT !.kind = "zeros"],
     status |-> error_message, how |-> "failed"]
CreateEmptyOutput(error_message) ==
    [image |-> EmptyImage, mask |-> EmptyMask,
     status |-> error_message, how |-> "failed"]

\* _process_external_mask(original_mask, external_mask, mask_operation)
ProcessExternalMask(original_mask, external_mask, mask_operation) ==
    IF external_mask = NoExternalMask THEN original_mask
    ELSE LET processed_external_mask ==
                 IF external_mask.dims = 3 THEN external_mask
                 ELSE IF external_mask.dims = 2
                      THEN [external_mask EXCEPT !.dims = 3]
                      ELSE original_mask
         IN  CASE mask_operation = UseExternalMask -> processed_external_mask
               [] mask_operation = CoverExternalMask -> processed_external_mask
               [] mask_operation = IgnoreExternalMask -> original_mask
               [] OTHER -> original_mask

\* _get_mask_status(external_mask, mask_operation)
GetMaskStatus(external_mask, mask_operation) ==
    IF external_mask # NoExternalMask /\ mask_operation = UseExternalMask
    THEN "mask: external used"
    ELSE IF external_mask # NoExternalMask /\ mask_operation = CoverExternalMask
    THEN "mask: covered by external"
    ELSE IF external_mask # NoExternalMask /\ mask_operation = IgnoreExternalMask
    THEN "mask: external ignored"
    ELSE "mask: original"

\* _validate_external_path(path, mode): <<is_valid, validation_msg>>
ValidateExternalPath(d, path0, mode) ==
    IF Strip(path0) = "" THEN <<FALSE, "path empty">>
    ELSE LET path == Strip(path0) IN
         IF mode = "upload" THEN
             IF ~PathExists(d, path) THEN <<FALSE, "file does not exist">>
             ELSE IF ~PathIsFile(d, path) THEN <<FALSE, "path is not a file">>
             ELSE IF FileExt(path) \notin SeqRange(SUPPORTED_EXT)
                  THEN <<FALSE, "unsupported image format">>
                  ELSE <<TRUE, "file path valid">>
         ELSE IF mode = "monitor" THEN
             IF ~PathExists(d, path) THEN <<FALSE, "directory does not exist">>
             ELSE IF ~PathIsDir(d, path) THEN <<FALSE, "path is not a directory">>
             ELSE <<TRUE, "directory path valid">>
         ELSE <<FALSE, "unknown mode">>

\* _check_refresh_conditions with > where the code has >= in the test of
\* the interval
CheckRefreshConditionsLate(refresh_control, auto_refresh, current_time) ==
    LET manual == refresh_control # last_refresh
        auto == auto_refresh > 0
                /\ (current_time - last_auto_refresh) > auto_refresh
    IN  [needs_refresh |-> manual \/ auto,
         auto |-> auto,
         last_refresh |-> IF manual THEN refresh_control ELSE last_refresh,
         last_auto_refresh |-> IF auto THEN current_time ELSE last_auto_refresh,
         status_info |-> (IF manual THEN <<"manual refresh triggered">> ELSE <<>>)
                         \o (IF auto THEN <<"auto refresh">> ELSE <<>>)]

\* _check_refresh_conditions(refresh_control, auto_refresh, current_time, status_info)
CheckRefreshConditions(refresh_control, auto_refresh, current_time) ==
    LET manual == refresh_control # last_refresh
        auto == auto_refresh > 0
                /\ (current_time - last_auto_refresh) >= auto_refresh
    IN  [needs_refresh |-> manual \/ auto,
         auto |-> auto,
         last_refresh |-> IF manual THEN refresh_control ELSE last_refresh,
         last_auto_refresh |-> IF auto THEN current_time ELSE last_auto_refresh,
         status_info |-> (IF manual THEN <<"manual refresh triggered">> ELSE <<>>)
                         \o (IF auto THEN <<"auto refresh">> ELSE <<>>)]

Empty == [k \in {} |-> 0]

\* _handle_cache_policy(cache_policy, needs_refresh, status_info): the caches
\* and the status afterwards. The assignment needs_refresh = True of the
\* 始终刷新 branch is to the parameter, and is lost on return.
HandleCachePolicy(cache_policy, status_info) ==
    IF cache_policy = AlwaysRefresh
    THEN [cache |-> cache, monitor_cache |-> monitor_cache,
          status_info |-> Append(status_info, "cache policy: always refresh")]
    ELSE IF cache_policy = NoCache
    THEN [cache |-> Empty, monitor_cache |-> Empty,
          status_info |-> Append(status_info, "cache policy: cache disabled")]
    ELSE [cache |-> cache, monitor_cache |-> monitor_cache,
          status_info |-> Append(status_info, "cache policy: smart cache")]

-----------------------------------------------------------------------------
(* InstantPreviewImageLoader: the three modes.  Every handler returns the   *)
(* tuple it gives back (out) and the fields of self it leaves behind.       *)

\* the fields a handler may assign, as they are when it starts
Self(c, mc) ==
    [cache |-> c, monitor_cache |-> mc,
     monitor_last_file |-> monitor_last_file,
     monitor_last_time |-> monitor_last_time,
     inputDir |-> inputDir, listed |-> FALSE]

Returning(self, o) ==
    [cache |-> self.cache, monitor_cache |-> self.monitor_cache,
     monitor_last_file |-> self.monitor_last_file,
     monitor_last_time |-> self.monitor_last_time,
     inputDir |-> self.inputDir, listed |-> self.listed, out |-> o]

CacheKey(kind, name) == <<kind, name[1], name[2]>>

\* _load_external_image(image_path): the image, or None when the file is
\* missing or PIL cannot read it
LoadExternalImage(d, image_path, decodable) ==
    IF ~PathExists(d, image_path) THEN [ok |-> FALSE, info |-> "file does not exist"]
    ELSE IF ~decodable THEN [ok |-> FALSE, info |-> "load failed"]
    ELSE [ok |-> TRUE, info |-> "image info",
          image |-> FileImage(Name(image_path), d[image_path].ver),
          mask |-> OriginalMask(Name(image_path), d[image_path].ver)]

\* _is_file_updated(file_path, current_time)
IsFileUpdatedOlder(d, file_path, current_time) ==
    IF ~PathExists(d, file_path) THEN FALSE
    ELSE GetMTime(d, file_path) < monitor_last_time
IsFileUpdated(d, file_path, current_time) ==
    IF ~PathExists(d, file_path) THEN FALSE
    ELSE GetMTime(d, file_path) > monitor_last_time

\* the directory's file list is read when a refresh is due or none is cached
ListIsRead(needs_refresh, path, mc) == needs_refresh \/ path \notin DOMAIN mc

\* _handle_monitor_mode(external_path, load_limit, cache_policy, external_mask,
\*                      mask_operation, status_info, needs_refresh, current_time)
HandleMonitorMode(d, external_path, load_limit, cache_policy, external_mask, mask_operation, status_info, needs_refresh, current_time, decodable, c, mc) ==
    LET path == Strip(external_path)
        valid == ValidateExternalPath(d, path, "monitor")
        self0 == Self(c, mc)
    IN
    IF path = "" THEN Returning(self0, CreateEmptyOutput(<<"no directory path given">>))
    ELSE IF ~valid[1]
    THEN Returning(self0, CreateEmptyOutput(<<"path validation failed", valid[2]>>))
    ELSE
    LET listed == ListIsRead(needs_refresh, path, mc)
        mc1 == IF listed
               THEN [k \in DOMAIN mc \cup {path} |->
                        IF k = path
                        THEN [files |-> GetDirectoryFiles(d, path, load_limit)]
                        ELSE mc[k]]
               ELSE mc
        status1 == Append(status_info, valid[2])
                   \o (IF listed THEN <<"directory file list refreshed">> ELSE <<>>)
        files == mc1[path].files
        self1 == [self0 EXCEPT !.monitor_cache = mc1, !.listed = listed]
    IN
    IF files = <<>>
    THEN Returning(self1, CreateEmptyOutput(<<"no image file in the monitored directory">>))
    ELSE
    LET latest_file == files[1]
        cache_key == CacheKey("monitor", Name(latest_file))
        file_changed == latest_file # monitor_last_file
        file_updated == IsFileUpdated(d, latest_file, current_time)
    IN
    IF needs_refresh \/ file_changed \/ file_updated
       \/ cache_policy = AlwaysRefresh \/ cache_key \notin DOMAIN c
    THEN
        LET loaded == LoadExternalImage(d, latest_file, decodable) IN
        IF ~loaded.ok
        THEN Returning(self1, CreateEmptyOutput(<<"cannot load image", latest_file>>))
        ELSE
        LET final_mask == ProcessExternalMask(loaded.mask, external_mask, mask_operation)
            c1 == IF cache_policy # NoCache
                  THEN [k \in DOMAIN c \cup {cache_key} |->
                           IF k = cache_key
                           THEN [image |-> loaded.image, mask |-> final_mask]
                           ELSE c[k]]
                  ELSE c
        IN  Returning([self1 EXCEPT !.cache = c1,
                                    !.monitor_last_file = latest_file,
                                    !.monitor_last_time = current_time],
                      [image |-> loaded.image, mask |-> final_mask,
                       status |-> status1
                                  \o <<GetMaskStatus(external_mask, mask_operation),
                                       "loaded latest image", latest_file, loaded.info>>,
                       how |-> "read"])
    ELSE
        Returning(self1,
                  [image |-> c[cache_key].image, mask |-> c[cache_key].mask,
                   status |-> status1 \o <<"using cached image", latest_file>>,
                   how |-> "cached"])

\* os.path.basename of the paths given to the upload mode
Basename(p) ==
    CASE p = "dir/a.png" -> "a.png"
      [] p = "dir/b.jpg" -> "b.jpg"
      [] p = "dir/n.txt" -> "n.txt"
      [] OTHER -> p

\* the while loop of _upload_external_image: the first free target name
RECURSIVE FreeName(_, _, _)
FreeName(dir, filename, counter) ==
    IF <<filename, counter>> \notin DOMAIN dir THEN <<filename, counter>>
    ELSE FreeName(dir, filename, counter + 1)

\* _upload_external_image(source_path): the name of the copy, or None
UploadExternalImage(d, dir, source_path, verifies) ==
    IF ~PathExists(d, source_path) \/ ~verifies
    THEN [ok |-> FALSE, inputDir |-> dir]
    ELSE LET target == FreeName(dir, Basename(source_path), 0) IN
         [ok |-> TRUE, name |-> target,
          inputDir |-> [n \in DOMAIN dir \cup {target} |->
                           IF n = target THEN d[source_path].ver ELSE dir[n]]]

\* _load_and_process_image(image_path, image_name, cache_policy, external_mask,
\*                         mask_operation, status_info, needs_refresh)
LoadAndProcessImage(self, image_name, cache_policy, external_mask, mask_operation, status_info, decodable) ==
    IF ~decodable
    THEN Returning(self, CreateEmptyOutput(<<"loading the image failed">>))
    ELSE
    LET image == FileImage(image_name, self.inputDir[image_name])
        mask == OriginalMask(image_name, self.inputDir[image_name])
        final_mask == ProcessExternalMask(mask, external_mask, mask_operation)
        cache_key == CacheKey("preview", image_name)
        c1 == IF cache_policy # NoCache
              THEN [k \in DOMAIN self.cache \cup {cache_key} |->
                       IF k = cache_key
                       THEN [image |-> image, mask |-> final_mask]
                       ELSE self.cache[k]]
              ELSE self.cache
    IN  Returning([self EXCEPT !.cache = c1],
                  [image |-> image, mask |-> final_mask,
                   status |-> status_info
                              \o <<GetMaskStatus(external_mask, mask_operation),
                                   "loaded", image_name[1], "image info">>,
                   how |-> "read"])

\* _handle_upload_mode(external_path, cache_policy, external_mask,
\*                     mask_operation, status_info, needs_refresh)
HandleUploadMode(d, external_path, cache_policy, external_mask, mask_operation, status_info, needs_refresh, verifies, decodable, c, mc) ==
    LET path == Strip(external_path)
        valid == ValidateExternalPath(d, path, "upload")
        self0 == Self(c, mc)
    IN
    IF path = "" THEN Returning(self0, CreateEmptyOutput(<<"no file path given">>))
    ELSE IF ~valid[1]
    THEN Returning(self0, CreateEmptyOutput(<<"path validation failed", valid[2]>>))
    ELSE
    LET up == UploadExternalImage(d, inputDir, path, verifies) IN
    IF ~up.ok THEN Returning(self0, CreateEmptyOutput(<<"file upload failed">>))
    ELSE LoadAndProcessImage([self0 EXCEPT !.inputDir = up.inputDir], up.name,
                             cache_policy, external_mask, mask_operation,
                             status_info \o <<valid[2], "uploaded", up.name[1]>>,
                             decodable)

\* the preview mode answers from self.cache when the image is cached and no
\* refresh is due
PreviewUsesCache(c, cache_key, needs_refresh, cache_policy) ==
    cache_key \in DOMAIN c /\ ~needs_refresh /\ cache_policy # AlwaysRefresh

\* _handle_preview_mode(image, cache_policy, external_mask, mask_operation,
\*                      status_info, needs_refresh)
HandlePreviewMode(image, cache_policy, external_mask, mask_operation, status_info, needs_refresh, decodable, c, mc) ==
    LET self0 == Self(c, mc)
        cache_key == CacheKey("preview", image)
    IN
    IF image = NoName THEN Returning(self0, CreateEmptyOutput(<<"no image file selected">>))
    ELSE IF image \notin DOMAIN inputDir
    THEN Returning(self0, CreateEmptyOutput(<<"image file does not exist", image[1]>>))
    ELSE IF PreviewUsesCache(c, cache_key, needs_refresh, cache_policy)
    THEN Returning(self0,
                   [image |-> c[cache_key].image, mask |-> c[cache_key].mask,
                    status |-> Append(status_info, "using cached image"),
                    how |-> "cached"])
    ELSE LoadAndProcessImage(self0, image, cache_policy, external_mask,
                             mask_operation, status_info, decodable)

\* the supported files of "dir" that no other supported file is newer than
Newest(d) ==
    {f \in Files : /\ d[f].ver > 0
                   /\ FileExt(f) \in SeqRange(SUPPORTED_EXT)
                   /\ \A g \in Files :
                        (d[g].ver > 0 /\ FileExt(g) \in SeqRange(SUPPORTED_EXT))
                            => GetMTime(d, g) <= GetMTime(d, f)}

\* load_image(图片文件, 操作模式, 外部路径, 刷新控制, 自动刷新间隔, 加载限制,
\*            缓存策略, 外部遮罩输入, 遮罩操作); verifies and decodable say whether
\* PIL can verify and read the file the call looks at
LoadImage(image, mode, external_path, refresh_control, auto_refresh, load_limit, cache_policy, external_mask, mask_operation, verifies, decodable) ==
    \E r \in {CheckRefreshConditions(refresh_control, auto_refresh, now)} :
    \E p \in {HandleCachePolicy(cache_policy, r.status_info)} :
    \E h \in {IF mode = UploadMode
              THEN HandleUploadMode(disk, external_path, cache_policy, external_mask,
                                    mask_operation, p.status_info, r.needs_refresh,
                                    verifies, decodable, p.cache, p.monitor_cache)
              ELSE IF mode = MonitorMode
              THEN HandleMonitorMode(disk, external_path, load_limit, cache_policy,
                                     external_mask, mask_operation, p.status_info,
                                     r.needs_refresh, now, decodable,
                                     p.cache, p.monitor_cache)
              ELSE HandlePreviewMode(image, cache_policy, external_mask,
                                     mask_operation, p.status_info, r.needs_refresh,
                                     decodable, p.cache, p.monitor_cache)} :
        /\ last_refresh' = r.last_refresh
        /\ last_auto_refresh' = r.last_auto_refresh
        /\ cache' = h.cache
        /\ monitor_cache' = h.monitor_cache
        /\ monitor_last_file' = h.monitor_last_file
        /\ monitor_last_time' = h.monitor_last_time
        /\ inputDir' = h.inputDir
        /\ out' = [image |-> h.out.image, mask |-> h.out.mask,
                   status |-> h.out.status, how |-> h.out.how,
                   mode |-> mode, policy |-> cache_policy,
                   needs_refresh |-> r.needs_refresh, auto |-> r.auto,
                   listed |-> h.listed,
                   call |-> [image |-> image, external_path |-> external_path,
                             auto_refresh |-> auto_refresh,
                             verifies |-> verifies, decodable |-> decodable]]
        /\ snapshot' = IF h.listed THEN Newest(disk) ELSE snapshot
        /\ UNCHANGED <<now, disk, vaeVars, saverVars, nodeVars>>

-----------------------------------------------------------------------------
(* InstantPreviewImageLoader: the node, its host and the file system.       *)

\* the values the host gives on the inputs
Images == {NoName, Name("p.png"), Name("gone.png"), Name("a.png")}
ExternalPaths == {"", " dir ", "nodir", "dir/a.png", "dir/n.txt"}
RefreshControls == {0, 1}
AutoRefreshIntervals == {0, 1, 2}
LoadLimits == {1, 10}
MaskInputs == {<<NoExternalMask, UseExternalMask>>,
               <<ExternalMask(2), CoverExternalMask>>}
\* what PIL makes of the file: it reads it, verifies but cannot read it, or
\* cannot verify it
Readings == {<<TRUE, TRUE>>, <<TRUE, FALSE>>, <<FALSE, FALSE>>}

NoOutput == [how |-> "none"]

\* the other nodes are not run
VaeIdle == vaeCall = [op |-> "none"] /\ vaeResult = [how |-> "none"]
SaverIdle ==
    /\ saveDirs = {} /\ saveFiles = Empty
    /\ saveCall = [op |-> "none"] /\ saveResult = [how |-> "none"]
NodeIdle == nodeCall = [op |-> "none"] /\ nodeResult = [how |-> "none"]

\* __init__, and the directories as the node finds them
LoaderInit ==
    /\ now = StartTime
    /\ disk \in [Files -> {[ver |-> 0, mtime |-> 0],
                           [ver |-> 1, mtime |-> StartTime - 1]}]
    /\ disk["dir/n.txt"].ver = 1
    /\ inputDir = [n \in {Name("p.png")} |-> 1]
    /\ cache = Empty
    /\ monitor_cache = Empty
    /\ last_refresh = 0
    /\ last_auto_refresh = 0
    /\ monitor_last_file = None
    /\ monitor_last_time = 0
    /\ out = NoOutput
    /\ snapshot = {}
    /\ VaeIdle
    /\ SaverIdle
    /\ NodeIdle

\* how many writes the files of the directory have seen
RECURSIVE SumVer(_, _)
SumVer(d, S) ==
    IF S = {} THEN 0
    ELSE LET f == CHOOSE g \in S : TRUE IN d[f].ver + SumVer(d, S \ {f})
Written(d) == SumVer(d, Files)
InitiallyWritten == Cardinality(Files)

\* time passes
Tick ==
    /\ now < StartTime + MaxTicks
    /\ now' = now + 1
    /\ UNCHANGED <<disk, inputDir, cache, monitor_cache, last_refresh,
                   last_auto_refresh, monitor_last_file, monitor_last_time, out,
                   snapshot, vaeVars, saverVars, nodeVars>>

\* the files other programs write
ImageFiles == {f \in Files : FileExt(f) \in SeqRange(SUPPORTED_EXT)}

\* another program creates or rewrites a file of the monitored directory
WriteFile ==
    /\ Written(disk) < InitiallyWritten + MaxWrites
    /\ \E f \in ImageFiles :
         /\ disk' = [disk EXCEPT ![f] = [ver |-> disk[f].ver + 1, mtime |-> now]]
    /\ UNCHANGED <<now, inputDir, cache, monitor_cache, last_refresh,
                   last_auto_refresh, monitor_last_file, monitor_last_time, out,
                   snapshot, vaeVars, saverVars, nodeVars>>

\* the host runs the node in 预览模式
LoadPreview ==
    \E image \in Images, cache_policy \in CachePolicies, decodable \in BOOLEAN :
        LoadImage(image, PreviewMode, "", 0, 0, 10, cache_policy,
                  NoExternalMask, UseExternalMask, TRUE, decodable)

\* the host runs the node in 上传模式
LoadUpload ==
    /\ Cardinality(DOMAIN inputDir) <= MaxUploads
    /\ \E external_path \in ExternalPaths, cache_policy \in CachePolicies,
          reading \in Readings :
        LoadImage(NoName, UploadMode, external_path, 0, 0, 10, cache_policy,
                  NoExternalMask, UseExternalMask, reading[1], reading[2])

\* the host runs the node in 目录监控模式
LoadMonitor ==
    \E external_path \in ExternalPaths, cache_policy \in CachePolicies,
       decodable \in BOOLEAN :
        LoadImage(NoName, MonitorMode, external_path, 0, 0, 10, cache_policy,
                  NoExternalMask, UseExternalMask, TRUE, decodable)

\* the host polls the directory "dir" in 目录监控模式
MonitorDirectory ==
    \E refresh_control \in RefreshControls, cache_policy \in CachePolicies,
       decodable \in BOOLEAN :
        LoadImage(NoName, MonitorMode, "dir", refresh_control, 0, 10,
                  cache_policy, NoExternalMask, UseExternalMask, TRUE, decodable)

\* the node run in all its modes
LoaderNext == LoadPreview \/ LoadUpload \/ LoadMonitor

SpecLoader == LoaderInit /\ [][LoaderNext]_vars

\* the directory monitor, polled as time passes and files are written
MonitorNext == Tick \/ WriteFile \/ MonitorDirectory

SpecMonitor == LoaderInit /\ [][MonitorNext]_vars

\* the host runs the node again and again with 自动刷新间隔 set
AutoRefreshPoll ==
    \E auto_refresh \in AutoRefreshIntervals, mode \in {PreviewMode, MonitorMode} :
        LoadImage(Name("p.png"), mode, "dir", 0, auto_refresh, 10, SmartCache,
                  NoExternalMask, UseExternalMask, TRUE, TRUE)

\* the node polled with an auto refresh interval as time passes
AutoRefreshNext == Tick \/ WriteFile \/ AutoRefreshPoll

SpecAutoRefresh == LoaderInit /\ [][AutoRefreshNext]_vars

-----------------------------------------------------------------------------
(* VAEDecoderOptimizer: tensors.  A tensor is its shape, its dtype and the  *)
(* set of the values it holds; values are fixed-point numbers, Scale        *)
(* standing for 1.0.  The shape operations move or copy elements, which     *)
(* leaves the set of values as it is.  NaN, PosInf and NegInf stand for the *)
(* float values nan, inf and -inf.                                          *)

Scale == 10 ^ 3

PosInf == 10 ^ 8
NegInf == -(10 ^ 8)
NaN == 10 ^ 9

\* the largest size of a dimension of the input tensors
MaxDim == 3

Tensor(shape, dtype, vals) == [shape |-> shape, dtype |-> dtype, vals |-> vals]

Rank(t) == Len(t.shape)

SetMin(V) == CHOOSE x \in V : \A y \in V : x <= y
SetMax(V) == CHOOSE x \in V : \A y \in V : x >= y

\* torch.min(image) and torch.max(image): nan when the tensor holds a nan
TorchMin(V) == IF NaN \in V THEN NaN ELSE SetMin(V)
TorchMax(V) == IF NaN \in V THEN NaN ELSE SetMax(V)

\* a - b of two floats that are not nan
Subtract(a, b) ==
    IF a \in {PosInf, NegInf}
    THEN IF a = b THEN NaN ELSE a
    ELSE IF b = PosInf THEN NegInf
    ELSE IF b = NegInf THEN PosInf
    ELSE a - b

\* a / d of two floats, d > 0
Divide(a, d) ==
    IF a = NaN THEN NaN
    ELSE IF d = PosInf THEN (IF a \in {PosInf, NegInf} THEN NaN ELSE 0)
    ELSE IF a \in {PosInf, NegInf} THEN a
    ELSE (a * Scale) \div d

\* the dtypes whose arithmetic with a Python float gives float32
IntegerDtypes == {"uint8", "int32"}

\* the 5-dimensional case of ensure_compatible_output: squeeze(0) once or twice
Squeeze5D(t) ==
    IF Rank(t) = 5
    THEN IF t.shape[1] = 1 /\ t.shape[2] = 1
         THEN [t EXCEPT !.shape = SubSeq(t.shape, 3, 5)]
         ELSE IF t.shape[1] = 1
              THEN [t EXCEPT !.shape = SubSeq(t.shape, 2, 5)]
              ELSE t
    ELSE t

\* image.float() / 255.0 for a uint8 tensor
ConvertUint8(t) ==
    IF t.dtype = "uint8"
    THEN [t EXCEPT !.dtype = "float32", !.vals = {x \div 255 : x \in t.vals}]
    ELSE t

\* image.to(torch.float32) when ensure_float32 is set
EnsureFloat32Skipped(t, ensure_float32) == t
EnsureFloat32(t, ensure_float32) ==
    IF ensure_float32 /\ t.dtype # "float32"
    THEN [t EXCEPT !.dtype = "float32"]
    ELSE t

\* the fix_tensor_shape block of ensure_compatible_output
FixTensorShape(t) ==
    LET sh == t.shape
        sh1 == IF Len(sh) = 4 /\ sh[2] = 1
               THEN IF sh[4] = 3
                    THEN <<sh[1], sh[3], sh[2], sh[4]>>    \* permute(0, 2, 1, 3)
                    ELSE <<sh[1], sh[3], sh[4]>>           \* squeeze(1)
               ELSE sh
        sh2 == IF Len(sh1) = 3
               THEN <<1>> \o sh1                           \* unsqueeze(0)
               ELSE IF Len(sh1) = 4 /\ sh1[2] = 3
                    THEN <<sh1[1], sh1[3], sh1[4], sh1[2]>> \* permute(0, 2, 3, 1)
                    ELSE sh1
    IN  [t EXCEPT !.shape = sh2]

\* torch.clamp(image, 0.0, 1.0)
Clamp01(x) == IF x = NaN THEN NaN ELSE IF x < 0 THEN 0 ELSE IF x > Scale THEN Scale ELSE x

\* which branch of the normalize_output block the value range selects
NormalizeBranch(V) ==
    LET min_val == TorchMin(V)
        max_val == TorchMax(V)
        spread == Subtract(max_val, min_val)
    IN  IF min_val = NaN THEN "none"            \* every comparison with nan is false
        ELSE IF min_val * 10 < -Scale \/ max_val * 10 > 11 * Scale
        THEN IF min_val * 10 >= -11 * Scale /\ max_val * 10 <= 11 * Scale
             THEN "shift"
             ELSE IF spread # NaN /\ (spread = PosInf \/ spread * (10 ^ 6 \div Scale) > 1)   \* > 1e-6
                  THEN "minmax" ELSE "none"
        ELSE "none"

\* the values after the normalize_output block, without the final clamp
NormalizeValues(V) ==
    LET branch == NormalizeBranch(V)
        image_min == TorchMin(V)
        image_max == TorchMax(V)
    IN  IF branch = "shift" THEN {(x + Scale) \div 2 : x \in V}
        ELSE IF branch = "minmax"
        THEN {Divide(Subtract(x, image_min), Subtract(image_max, image_min)) : x \in V}
        ELSE V

\* the normalize_output block; torch.min raises on a tensor without elements;
\* promotes says whether this torch gives a float result for torch.clamp of
\* an integer tensor with float bounds
NormalizeOutput(t, promotes) ==
    IF t.vals = {} THEN [raised |-> "min(): tensor has no elements"]
    ELSE LET branch == NormalizeBranch(t.vals)
             scaled == NormalizeValues(t.vals)
             dtype1 == IF branch # "none" /\ t.dtype \in IntegerDtypes
                       THEN "float32" ELSE t.dtype
             dtype2 == IF dtype1 \in IntegerDtypes /\ promotes
                       THEN "float32" ELSE dtype1
         IN  [raised |-> "", branch |-> branch,
              image |-> [t EXCEPT !.dtype = dtype2,
                                  !.vals = {Clamp01(x) : x \in scaled}]]

\* fix_final_shape(image, debug_output)
FixFinalShape(t) ==
    LET sh == t.shape IN
    IF Len(sh) = 2
    THEN [t EXCEPT !.shape = <<1, sh[1], sh[2], 3>>]
    ELSE IF Len(sh) = 3
    THEN IF sh[3] = 3 THEN [t EXCEPT !.shape = <<1>> \o sh]
         ELSE IF sh[1] = 3 THEN [t EXCEPT !.shape = <<1, sh[2], sh[3], sh[1]>>]
         ELSE [t EXCEPT !.shape = <<sh[1], sh[2], sh[3], 3>>]
    ELSE IF Len(sh) = 4
    THEN IF sh[2] = 3 THEN [t EXCEPT !.shape = <<sh[1], sh[3], sh[4], sh[2]>>]
         ELSE IF sh[4] # 3
              THEN IF sh[2] = 1 /\ sh[4] = 3
                   THEN [t EXCEPT !.shape = <<sh[1], sh[3], sh[4]>>]
                   ELSE t
              ELSE t
    ELSE t

\* the final shape check of ensure_compatible_output
FinalShapeCheck(t) ==
    IF Rank(t) # 4 \/ t.shape[Rank(t)] # 3 THEN FixFinalShape(t) ELSE t

\* ensure_compatible_output(image, ensure_float32, normalize_output,
\*                          fix_tensor_shape, debug_output)
EnsureCompatibleOutput(image, ensure_float32, normalize_output, fix_tensor_shape, promotes) ==
    LET t1 == Squeeze5D(image)
        t2 == ConvertUint8(t1)
        t3 == EnsureFloat32(t2, ensure_float32)
        t4 == IF fix_tensor_shape THEN FixTensorShape(t3) ELSE t3
        n == IF normalize_output THEN NormalizeOutput(t4, promotes)
             ELSE [raised |-> "", branch |-> "off", image |-> t4]
    IN  IF n.raised # "" THEN [raised |-> n.raised]
        ELSE [raised |-> "", branch |-> n.branch, image |-> FinalShapeCheck(n.image)]

-----------------------------------------------------------------------------
(* VAEDecoderOptimizer: optimized_decode.                                   *)

\* create_compatible_fallback_image()
CreateCompatibleFallbackImage ==
    [shape |-> <<1, 512, 512, 3>>, dtype |-> "float32", vals |-> {0}]

\* status_messages.append(...) under debug_output
Debug(debug_output, msg) == IF debug_output THEN <<msg>> ELSE <<>>

\* "确保 status 始终有输出": the default line of an empty status
EnsureStatusUnchanged(status_messages) == status_messages
EnsureStatus(status_messages) ==
    IF status_messages = <<>>
    THEN <<"decode finished (debug output disabled)">>
    ELSE status_messages

\* the except branch of optimized_decode
DecodeFailed(status_messages, error) ==
    [image |-> CreateCompatibleFallbackImage,
     status_messages |-> status_messages
                         \o <<"VAE decode failed", error, "using the fallback image">>,
     raised |-> TRUE]

\* optimized_decode(samples, vae, use_tiled_decoding, tile_size, memory_efficient,
\*                  ensure_float32, normalize_output, fix_tensor_shape, debug_output);
\* c.decoded is what vae.decode gives for the samples, c.decode_raises whether it
\* throws instead, c.cuda is torch.cuda.is_available()
OptimizedDecode(c) ==
    LET dbg == c.debug_output
        tiled == c.use_tiled_decoding /\ c.has_decode_tiled
        s1 == Debug(dbg, "start")
              \o (IF c.memory_efficient THEN Debug(dbg, "memory optimisation enabled") ELSE <<>>)
              \o (IF c.cuda THEN Debug(dbg, "GPU cache cleared") ELSE <<>>)
              \o (IF tiled THEN Debug(dbg, "tiled decoding") ELSE Debug(dbg, "standard decoding"))
        s2 == s1 \o Debug(dbg, "decoded")
        e == EnsureCompatibleOutput(c.decoded, c.ensure_float32, c.normalize_output,
                                    c.fix_tensor_shape, c.promotes)
        s3 == s2 \o (IF c.cuda THEN Debug(dbg, "post-decode cache cleared") ELSE <<>>)
                 \o Debug(dbg, "decode succeeded")
        r == IF c.decode_raises THEN DecodeFailed(s1, "decode error")
             ELSE IF e.raised # "" THEN DecodeFailed(s2, e.raised)
             ELSE [image |-> e.image, status_messages |-> s3, raised |-> FALSE]
    IN  [how |-> "returned", image |-> r.image, raised |-> r.raised,
         status |-> EnsureStatus(r.status_messages)]

\* the tensors given to ensure_compatible_output: every shape of 2 to 5
\* dimensions, value sets in and out of the ranges of the code, nan and the
\* infinities among them, every dtype,
\* and a tensor without elements
Shapes == UNION {[1..n -> 1..MaxDim] : n \in 2..5}
ValueGrid == {-2 * Scale, -11 * (Scale \div 10), -Scale, -(Scale \div 10), 0,
              Scale \div 2, Scale, 11 * (Scale \div 10), 12 * (Scale \div 10),
              5 * Scale, NaN, PosInf, NegInf}
ValueSets == {{x, y} : x \in ValueGrid, y \in ValueGrid}
Dtypes == {"uint8", "int32", "float16", "float32", "float64"}
IntegerValueSets == {{x * Scale, y * Scale} : x \in {0, 1, 200, 255}, y \in {0, 1, 200, 255}}

ShapeInputs == {Tensor(sh, "float32", {0, Scale}) : sh \in Shapes}
ValueInputs == {Tensor(<<1, 2, 2, 3>>, "float32", V) : V \in ValueSets}
DtypeInputs ==
    {Tensor(<<1, 2, 2, 3>>, dt, V) : dt \in Dtypes \ {"uint8", "int32"}, V \in {{0, Scale}, {-Scale, Scale}}}
    \cup {Tensor(<<1, 2, 2, 3>>, dt, V) : dt \in {"uint8", "int32"}, V \in IntegerValueSets}
EmptyInputs == {Tensor(<<1, 0, 0, 3>>, "float32", {})}
TensorInputs == ShapeInputs \cup ValueInputs \cup DtypeInputs \cup EmptyInputs

\* the calls of ensure_compatible_output
EnsureCalls ==
    [op : {"ensure"}, image : TensorInputs, ensure_float32 : BOOLEAN,
     normalize_output : BOOLEAN, fix_tensor_shape : BOOLEAN, promotes : BOOLEAN]

\* the calls of optimized_decode
DecodeCalls ==
    [op : {"decode"},
     decoded : {Tensor(<<1, 3, 2, 2>>, "float16", {-Scale, Scale}),
                Tensor(<<1, 0, 0, 3>>, "float32", {})},
     decode_raises : BOOLEAN, has_decode_tiled : BOOLEAN, cuda : BOOLEAN,
     use_tiled_decoding : BOOLEAN, memory_efficient : BOOLEAN,
     ensure_float32 : {TRUE}, normalize_output : BOOLEAN,
     fix_tensor_shape : {TRUE}, debug_output : BOOLEAN, promotes : {TRUE}]

LoaderIdle ==
    /\ now = StartTime
    /\ disk = [f \in Files |-> [ver |-> 0, mtime |-> 0]]
    /\ inputDir = Empty /\ cache = Empty /\ monitor_cache = Empty
    /\ last_refresh = 0 /\ last_auto_refresh = 0
    /\ monitor_last_file = None /\ monitor_last_time = 0
    /\ out = NoOutput /\ snapshot = {}

VaeInit ==
    /\ vaeCall \in EnsureCalls \cup DecodeCalls
    /\ vaeResult = [how |-> "none"]
    /\ LoaderIdle
    /\ SaverIdle
    /\ NodeIdle

\* the call of ensure_compatible_output is made
CallEnsureCompatibleOutput ==
    /\ vaeCall.op = "ensure" /\ vaeResult.how = "none"
    /\ \E e \in {EnsureCompatibleOutput(vaeCall.image, vaeCall.ensure_float32,
                     vaeCall.normalize_output, vaeCall.fix_tensor_shape,
                     vaeCall.promotes)} :
         vaeResult' = IF e.raised # "" THEN [how |-> "raised", error |-> e.raised]
                      ELSE [how |-> "returned", image |-> e.image, branch |-> e.branch]
    /\ UNCHANGED <<vaeCall, loaderVars, saverVars, nodeVars>>

\* the host runs the node
CallOptimizedDecode ==
    /\ vaeCall.op = "decode" /\ vaeResult.how = "none"
    /\ vaeResult' = OptimizedDecode(vaeCall)
    /\ UNCHANGED <<vaeCall, loaderVars, saverVars, nodeVars>>

VaeNext == CallEnsureCompatibleOutput \/ CallOptimizedDecode

SpecVae == VaeInit /\ [][VaeNext]_vars

-----------------------------------------------------------------------------
(* AdvancedImageSaver (image_converter.py).  A directory is the sequence of *)
(* its path components; a file is named by its directory and the parts of   *)
(* prefix_NNNNN.ext; saveFiles maps each file to what was written into it.  *)

\* a batch is saved only while the directories hold fewer files than this
MaxFiles == 3

\* folder_paths.get_output_directory(), kept by __init__
OutputDir == <<"output">>

\* datetime.now().strftime("%Y-%m-%d")
DateStr == "today"

\* the 保存目录 choices: 默认输出目录, 自定义目录
DefaultOutputDirectory == "default"
CustomDirectory == "custom"

\* the 图像格式 choices
ImageFormats == {"PNG", "JPG", "WEBP", "BMP", "TIFF"}

\* 图像格式.lower()
Lower(fmt) ==
    CASE fmt = "PNG" -> "png"
      [] fmt = "JPG" -> "jpg"
      [] fmt = "WEBP" -> "webp"
      [] fmt = "BMP" -> "bmp"
      [] fmt = "TIFF" -> "tiff"

\* a prompt string: what it says and len(prompt)
PromptText(text, len) == [text |-> text, len |-> len, ellipsis |-> FALSE]

\* prompt[:n] + "..." if len(prompt) > n else prompt
Truncated(prompt, n) ==
    IF prompt.len > n THEN [text |-> prompt.text, len |-> n, ellipsis |-> TRUE]
    ELSE prompt

\* the number of decimal digits of n
RECURSIVE Digits(_)
Digits(n) == IF n < 10 THEN 1 ELSE 1 + Digits(n \div 10)

\* f"{n:05d}": zero-padded to five characters, longer when n needs more
Format05d(n) == [n |-> n, len |-> IF Digits(n) < 5 THEN 5 ELSE Digits(n), isdigit |-> TRUE]

\* os.path.join(save_dir, f"{prefix}_{num_part}.{ext}")
FilePath(dir, prefix, num_part, ext) == [dir |-> dir, prefix |-> prefix, num_part |-> num_part, ext |-> ext]

\* os.path.basename(file_path)
FileBasename(f) == [prefix |-> f.prefix, num_part |-> f.num_part, ext |-> f.ext]

\* os.makedirs(save_dir, exist_ok=True)
Makedirs(dirs, save_dir) == dirs \cup {SubSeq(save_dir, 1, k) : k \in 1..Len(save_dir)}

\* what a metadata helper returns when it caught an exception
NoneValue == [kind |-> "None"]

\* a file saved without pnginfo= or exif=
NoMetadata == [kind |-> "none"]

\* a text key or tag that was not added
NotSet == [set |-> FALSE]

\* get_workflow_info; raises tells whether building the PngInfo throws
GetWorkflowInfo(prompt, negative_prompt, raises) ==
    IF raises THEN NoneValue
    ELSE [kind |-> "pnginfo",
          Software |-> "ComfyUI MISLG Tools",
          CreationTime |-> "now",
          Prompt |-> IF prompt.len > 0 THEN [set |-> TRUE, value |-> prompt] ELSE NotSet,
          NegativePrompt |-> IF negative_prompt.len > 0 THEN [set |-> TRUE, value |-> negative_prompt] ELSE NotSet,
          Generator |-> "AdvancedImageSaver",
          Parameters |-> "Quality: 95, Workflow: Embedded"]

\* get_exif_data; raises tells whether building the EXIF bytes throws
GetExifData(prompt, negative_prompt, raises) ==
    IF raises THEN NoneValue
    ELSE LET comment_parts ==
                 (IF prompt.len > 0 THEN <<[label |-> "Prompt", value |-> Truncated(prompt, 1000)]>> ELSE <<>>)
                 \o (IF negative_prompt.len > 0 THEN <<[label |-> "Negative", value |-> Truncated(negative_prompt, 500)]>> ELSE <<>>)
         IN  [kind |-> "exif",
              Artist |-> "ComfyUI MISLG Tools",
              ImageDescription |-> "Generated by AdvancedImageSaver",
              UserComment |-> IF comment_parts # <<>> THEN [set |-> TRUE, value |-> comment_parts] ELSE NotSet,
              DateTimeOriginal |-> "now"]

\* the pnginfo= or exif= that pil_image.save is given for one image
SavedMetadata(image_format, embed_workflow, prompt, negative_prompt, raises) ==
    LET workflow_info == GetWorkflowInfo(prompt, negative_prompt, raises)
        exif_data == GetExifData(prompt, negative_prompt, raises)
    IN  CASE image_format = "PNG" ->
                 IF embed_workflow /\ workflow_info # NoneValue THEN workflow_info ELSE NoMetadata
          [] image_format = "JPG" ->
                 IF exif_data # NoneValue THEN exif_data ELSE NoMetadata
          [] image_format = "WEBP" ->
                 IF embed_workflow /\ exif_data # NoneValue THEN exif_data ELSE NoMetadata
          [] image_format = "BMP" -> NoMetadata
          [] image_format = "TIFF" ->
                 IF embed_workflow /\ exif_data # NoneValue THEN exif_data ELSE NoMetadata

\* get_next_sequence_number; raises tells whether os.listdir throws
GetNextSequenceNumber(dirs, files, directory, prefix, extension, raises) ==
    IF directory \notin dirs THEN 1
    ELSE IF raises THEN 1
    ELSE LET existing_files == {f \in DOMAIN files : f.dir = directory /\ f.prefix = prefix /\ f.ext = extension}
             numbers == {f.num_part.n : f \in {g \in existing_files : g.num_part.isdigit /\ g.num_part.len = 5}}
         IN  IF existing_files = {} THEN 1
             ELSE IF numbers = {} THEN 1
             ELSE SetMax(numbers) + 1

\* an image tensor that Image.fromarray cannot convert
BadImage == "bad"

\* the lines of the report; 等待自动保存启用...
WaitingLine == [line |-> "waiting for auto save"]
\* ❌ 错误: 没有输入图像
NoImagesLine == [line |-> "no input images"]
\* ❌ 错误: 自定义目录路径为空
EmptyCustomPathLine == [line |-> "custom path is empty"]
\* 工作流信息: 已嵌入
WorkflowEmbeddedLine == [line |-> "workflow embedded"]

\* file_number = next_number + i for the i-th image of enumerate(images),
\* which counts from 0 where the sequences here count from 1
FileNumberFromOne(next_number, i) == next_number + i
FileNumber(next_number, i) == next_number + (i - 1)

\* a return of save_images
SaveReturn(dirs, files, details, saved_files) ==
    [dirs |-> dirs, files |-> files,
     result |-> [how |-> "returned", details |-> details, saved_files |-> saved_files]]

\* the part of save_images after the 自动保存 check; c holds the inputs and
\* what the environment does: makedirs_raises, listdir_raises, helper_raises
SaveEnabled(dirs, files, c) ==
    IF Len(c.images) = 0 THEN SaveReturn(dirs, files, <<NoImagesLine>>, <<>>)
    ELSE IF c.save_directory # DefaultOutputDirectory /\ Strip(c.custom_path) = ""
    THEN SaveReturn(dirs, files, <<EmptyCustomPathLine>>, <<>>)
    ELSE
    LET base_dir == IF c.save_directory = DefaultOutputDirectory THEN OutputDir
                    ELSE <<Strip(c.custom_path)>>
        save_dir == IF c.date_directory THEN Append(base_dir, DateStr) ELSE base_dir
    IN
    IF c.makedirs_raises
    THEN SaveReturn(dirs, files, <<[line |-> "makedirs failed", dir |-> save_dir]>>, <<>>)
    ELSE
    LET made == Makedirs(dirs, save_dir)
        next_number == GetNextSequenceNumber(made, files, save_dir, c.filename_prefix,
                                             Lower(c.image_format), c.listdir_raises)
        total_images == Len(c.images)
        file_path(i) == FilePath(save_dir, c.filename_prefix, Format05d(FileNumber(next_number, i)),
                                 Lower(c.image_format))
        metadata == SavedMetadata(c.image_format, c.embed_workflow, c.prompt,
                                  c.negative_prompt, c.helper_raises)
        index == [i \in 1..total_images |-> i]
        saved == SelectSeq(index, LAMBDA i : c.images[i] # BadImage)
        failed == SelectSeq(index, LAMBDA i : c.images[i] = BadImage)
        saved_files == [k \in 1..Len(saved) |-> file_path(saved[k])]
        error_messages == [k \in 1..Len(failed) |-> [line |-> "image failed", image |-> failed[k]]]
        last(f) == SetMax({i \in SeqRange(saved) : file_path(i) = f})
        written == [f \in DOMAIN files \cup SeqRange(saved_files) |->
                       IF f \in SeqRange(saved_files)
                       THEN [image |-> c.images[last(f)], metadata |-> metadata]
                       ELSE files[f]]
        outcome ==
            IF error_messages # <<>>
            THEN error_messages \o
                 (IF saved_files # <<>>
                  THEN <<[line |-> "partly saved", count |-> Len(saved_files)]>> \o
                       [k \in 1..Len(saved_files) |-> [line |-> "saved", file |-> FileBasename(saved_files[k])]]
                  ELSE <<>>)
            ELSE IF saved_files # <<>>
            THEN <<IF Len(saved_files) = 1
                   THEN [line |-> "image saved", file |-> FileBasename(saved_files[1])]
                   ELSE [line |-> "batch saved", count |-> Len(saved_files)]>> \o
                 <<[line |-> "save directory", dir |-> save_dir]>> \o
                 [k \in 1..Len(saved_files) |-> [line |-> "file", file |-> FileBasename(saved_files[k])]]
            ELSE <<[line |-> "nothing saved"]>>
        details ==
            outcome \o
            <<[line |-> "configuration", format |-> c.image_format, prefix |-> c.filename_prefix,
               start |-> Format05d(next_number)]>> \o
            (IF c.prompt.len > 0 THEN <<[line |-> "prompt", text |-> Truncated(c.prompt, 50)]>> ELSE <<>>) \o
            (IF c.negative_prompt.len > 0
             THEN <<[line |-> "negative prompt", text |-> Truncated(c.negative_prompt, 50)]>> ELSE <<>>) \o
            (IF c.embed_workflow /\ c.image_format \in {"PNG", "JPG", "WEBP", "TIFF"}
             THEN <<WorkflowEmbeddedLine>> ELSE <<>>) \o
            (IF c.image_format \in {"JPG", "WEBP"}
             THEN <<[line |-> "quality", quality |-> c.quality]>> ELSE <<>>)
    IN  SaveReturn(made, written, details, saved_files)

\* save_images without the 自动保存 check
SaveImagesAlways(dirs, files, c) == SaveEnabled(dirs, files, c)

\* save_images
SaveImages(dirs, files, c) ==
    IF ~c.auto_save THEN SaveReturn(dirs, files, <<WaitingLine>>, <<>>)
    ELSE SaveEnabled(dirs, files, c)

\* the inputs of the saver
Batches == {<<>>, <<"x">>, <<"y", "x">>, <<BadImage, "x">>, <<"x", BadImage, "y">>}
Prefixes == {"image"}
CustomPaths == {" ", " dir "}
NoPrompt == PromptText("", 0)
Prompts == {NoPrompt, PromptText("cat", 3), PromptText("essay", 1200)}
NegativePrompts == {NoPrompt, PromptText("blurry", 6)}
Qualities == {95}

\* a call of save_images with the default values of the optional inputs
SaveCall(images, image_format, auto_save) ==
    [op |-> "save", images |-> images, save_directory |-> DefaultOutputDirectory,
     image_format |-> image_format, filename_prefix |-> "image", date_directory |-> FALSE,
     auto_save |-> auto_save, custom_path |-> "", quality |-> 95, embed_workflow |-> TRUE,
     prompt |-> NoPrompt, negative_prompt |-> NoPrompt,
     makedirs_raises |-> FALSE, listdir_raises |-> FALSE, helper_raises |-> FALSE]

\* the host runs the node with the inputs c
Save(c) ==
    /\ \E r \in {SaveImages(saveDirs, saveFiles, c)} :
         /\ saveDirs' = r.dirs
         /\ saveFiles' = r.files
         /\ saveResult' = r.result
    /\ saveCall' = c

\* files that are in the output directory before the first save
Existing(prefix, num_part) == FilePath(OutputDir, prefix, num_part, "png")
OldFile == [image |-> "old", metadata |-> NoMetadata]
InitialListings ==
    {{}, {Existing("image", Format05d(1))}, {Existing("image", Format05d(99998))},
     {Existing("image", Format05d(99999))},
     {Existing("image", [n |-> 0, len |-> 5, isdigit |-> FALSE]), Existing("other", Format05d(7))}}

SaverInit ==
    /\ saveDirs = {OutputDir}
    /\ \E listing \in InitialListings : saveFiles = [f \in listing |-> OldFile]
    /\ saveCall = [op |-> "none"]
    /\ saveResult = [how |-> "none"]
    /\ LoaderIdle
    /\ VaeIdle
    /\ NodeIdle

\* the directories have room for another batch
HasRoom == Cardinality(DOMAIN saveFiles) < MaxFiles

\* the node has not run yet
FirstRun == saveCall.op = "none"

\* 自动保存 is off
SaveDisabled ==
    /\ \E images \in {<<>>, <<"x">>}, image_format \in {"PNG", "JPG"}, date_directory \in BOOLEAN,
          choice \in {DefaultOutputDirectory, CustomDirectory} :
        Save([SaveCall(images, image_format, FALSE) EXCEPT
                 !.save_directory = choice, !.custom_path = " dir ",
                 !.date_directory = date_directory])
    /\ UNCHANGED <<loaderVars, vaeVars, nodeVars>>

\* batches of PNG images go to the output directory
SaveBatch ==
    /\ HasRoom
    /\ \E images \in Batches, listdir_raises \in BOOLEAN :
        Save([SaveCall(images, "PNG", TRUE) EXCEPT !.listdir_raises = listdir_raises])
    /\ UNCHANGED <<loaderVars, vaeVars, nodeVars>>

\* the first run saves one image in each format, with and without metadata
SaveFormat ==
    /\ FirstRun
    /\ \E image_format \in ImageFormats, embed_workflow \in BOOLEAN, prompt \in Prompts,
          negative_prompt \in NegativePrompts, helper_raises \in BOOLEAN, quality \in Qualities :
        Save([SaveCall(<<"x">>, image_format, TRUE) EXCEPT
                 !.embed_workflow = embed_workflow, !.prompt = prompt,
                 !.negative_prompt = negative_prompt, !.helper_raises = helper_raises,
                 !.quality = quality])
    /\ UNCHANGED <<loaderVars, vaeVars, nodeVars>>

\* the first run saves one image into each choice of directory
SaveDirectory ==
    /\ FirstRun
    /\ \E choice \in {DefaultOutputDirectory, CustomDirectory}, custom_path \in CustomPaths,
          date_directory \in BOOLEAN, makedirs_raises \in BOOLEAN, filename_prefix \in Prefixes :
        Save([SaveCall(<<"x">>, "PNG", TRUE) EXCEPT
                 !.save_directory = choice, !.custom_path = custom_path,
                 !.date_directory = date_directory, !.makedirs_raises = makedirs_raises,
                 !.filename_prefix = filename_prefix])
    /\ UNCHANGED <<loaderVars, vaeVars, nodeVars>>

SaverNext == SaveDisabled \/ SaveBatch \/ SaveFormat \/ SaveDirectory

SpecSaver == SaverInit /\ [][SaverNext]_vars

\* ---- begin: nodes without state
-----------------------------------------------------------------------------
(* The model unloaders (model_unloader.py, model_unloader_io.py).  A report *)
(* is the sequence of its lines; effects lists, in order, what the call did *)
(* to the process: memory queries, cache clearing, garbage collection.      *)

\* the unload_mode choices
UnloadModes == {"aggressive", "balanced", "conservative"}

\* the model types of UniversalModelUnloader, in the order of execute_model_unload
UnloaderTypes == <<"vae", "clip", "unet", "controlnet", "other">>

\* the model types of UniversalModelUnloaderWithIO
UnloaderIOTypes == <<"vae", "clip", "unet", "controlnet", "upscale", "face", "segment", "depth", "other">>

\* the passthrough inputs of process_with_unload and the output of each
PassthroughInputs == <<"image_input", "latent_input", "conditioning_input", "vae_input", "clip_input", "model_input", "controlnet_input", "upscale_input">>
OptionalInputs == SeqRange(PassthroughInputs) \cup {"any_input"}

\* the primitives that may throw: torch.cuda.empty_cache, gc.collect,
\* the torch.cuda memory queries, psutil
Faults == {"empty_cache", "gc", "cuda_query", "psutil"}

\* ("🔄 卸载操作未触发", "无操作")
NotTriggeredLine == [line |-> "unload not triggered"]
NoOperationLine == [line |-> "no operation"]

\* get_memory_stats()
GetMemoryStats(cuda, faults) ==
    (IF cuda
     THEN IF "cuda_query" \in faults THEN <<[line |-> "GPU statistics failed"]>>
          ELSE <<[line |-> "GPU memory"], [line |-> "GPU peak"]>>
     ELSE <<>>)
    \o (IF "psutil" \in faults THEN <<[line |-> "system statistics failed"]>>
        ELSE <<[line |-> "system memory"], [line |-> "process memory"]>>)

\* get_unload_strategy(unload_mode): strategies[unload_mode] raises KeyError
\* for a mode that is not one of the three
GetUnloadStrategy(unload_mode) ==
    IF unload_mode \notin UnloadModes THEN [raised |-> TRUE]
    ELSE [raised |-> FALSE, move_to_cpu |-> TRUE,
          clear_references |-> unload_mode = "aggressive",
          force_unload |-> unload_mode = "aggressive"]

\* unload_vae_models and its siblings: the count of models unloaded
UnloadTypeModels(type, faults) == IF "empty_cache" \in faults THEN 0 ELSE 1

\* execute_model_unload for the types still to do
RECURSIVE UnloadEach(_, _, _, _)
UnloadEach(types, unload, faults, acc) ==
    IF types = <<>> THEN acc
    ELSE LET type == Head(types)
             count == UnloadTypeModels(type, faults)
         IN  UnloadEach(Tail(types), unload, faults,
                 IF type \in unload
                 THEN [results |-> acc.results \o
                                   (IF count > 0 THEN <<[line |-> "unloaded", type |-> type, count |-> count]>>
                                    ELSE <<>>),
                       models_unloaded |-> acc.models_unloaded + count,
                       effects |-> Append(acc.effects, [do |-> "empty_cache", type |-> type])]
                 ELSE acc)

\* execute_model_unload
ExecuteModelUnload(types, unload, faults) ==
    LET done == UnloadEach(types, unload, faults, [results |-> <<>>, models_unloaded |-> 0, effects |-> <<>>])
    IN  [results |-> done.results
                     \o (IF done.models_unloaded = 0 THEN <<[line |-> "no model to unload"]>> ELSE <<>>)
                     \o <<[line |-> "total unloaded", count |-> done.models_unloaded]>>,
         effects |-> done.effects]

\* force_garbage_collection
ForceGarbageCollection(faults) ==
    IF "gc" \in faults THEN <<[line |-> "garbage collection failed"]>>
    ELSE <<[line |-> "garbage collected"]>>

\* clear_cuda_cache (the method)
ClearCudaCache(cuda, faults) ==
    IF cuda
    THEN IF "cuda_query" \in faults \/ "empty_cache" \in faults
         THEN <<[line |-> "CUDA cache clearing failed"]>>
         ELSE <<[line |-> "CUDA cache cleared"]>>
    ELSE <<[line |-> "no CUDA device"]>>

\* calculate_memory_saved
CalculateMemorySaved(cuda) == IF cuda THEN "about 1-4GB" ELSE "about 0.5-2GB"

\* the query of the memory statistics as an effect
StatsQuery == [do |-> "memory_stats"]

\* the body shared by unload_models and execute_unload_operation after the
\* trigger_unload test; the two differ in the model types; c.unload is the set
\* of types whose switch is on
UnloadTriggered(types, c) ==
    LET initial_stats == GetMemoryStats(c.cuda, c.faults)
        unload_strategy == GetUnloadStrategy(c.unload_mode)
        unload_results == ExecuteModelUnload(types, c.unload, c.faults)
        collects == c.force_garbage_collect
        clears == c.clear_cuda_cache /\ c.cuda
        final_stats == GetMemoryStats(c.cuda, c.faults)
    IN  IF unload_strategy.raised
        THEN [report |-> <<[line |-> "start"], [line |-> "unload failed", error |-> "KeyError"]>>,
              memory |-> <<[line |-> "memory statistics"]>> \o initial_stats,
              effects |-> <<StatsQuery>>]
        ELSE [report |-> <<[line |-> "start"]>> \o unload_results.results
                         \o (IF collects THEN ForceGarbageCollection(c.faults) ELSE <<>>)
                         \o (IF clears THEN ClearCudaCache(c.cuda, c.faults) ELSE <<>>)
                         \o <<[line |-> "unload finished"]>>,
              memory |-> <<[line |-> "memory statistics"]>> \o initial_stats \o final_stats
                         \o <<[line |-> "total freed", saved |-> CalculateMemorySaved(c.cuda)]>>,
              effects |-> <<StatsQuery>> \o unload_results.effects
                          \o (IF collects THEN <<[do |-> "gc"]>> ELSE <<>>)
                          \o (IF clears THEN <<[do |-> "clear_cuda_cache"]>> ELSE <<>>)
                          \o <<StatsQuery>>]

\* unload_models and execute_unload_operation
UnloadUntested(types, c) == UnloadTriggered(types, c)
Unload(types, c) ==
    IF ~c.trigger_unload
    THEN [report |-> <<NotTriggeredLine>>, memory |-> <<NoOperationLine>>, effects |-> <<>>]
    ELSE UnloadTriggered(types, c)

\* UniversalModelUnloader.unload_models
UnloadModels(c) == Unload(UnloaderTypes, c)

\* UniversalModelUnloaderWithIO.execute_unload_operation
ExecuteUnloadOperation(c) == Unload(UnloaderIOTypes, c)

\* kwargs.get(key, None)
KwargsGetNothing(kwargs, key) == None
KwargsGet(kwargs, key) == IF key \in DOMAIN kwargs THEN kwargs[key] ELSE None

\* UniversalModelUnloaderWithIO.process_with_unload: the eight outputs, then
\* unload_report and memory_stats
ProcessWithUnload(c) ==
    LET input_data == [key \in OptionalInputs |-> KwargsGet(c.kwargs, key)]
        done == ExecuteUnloadOperation(c)
    IN  [how |-> "returned",
         outputs |-> [i \in 1..Len(PassthroughInputs) |-> input_data[PassthroughInputs[i]]],
         report |-> done.report, memory |-> done.memory, effects |-> done.effects]

\* the inputs connected to process_with_unload: a connected input carries an
\* object of its own, named after the input, or None
Connections ==
    {[key \in D |-> IF key \in N THEN None ELSE key] :
        D \in SUBSET OptionalInputs, N \in {{}, {"image_input", "any_input"}}}
AllConnected == [key \in OptionalInputs |-> key]

\* sets of unloader calls; cuda is torch.cuda.is_available(), faults the
\* primitives that throw during the call
FaultSets == {{}, {"empty_cache"}, {"gc"}, {"cuda_query"}, {"psutil"}, Faults}
UnloadSelections(types) == {{}, SeqRange(types), {"vae"}, SeqRange(types) \ {"segment", "depth"}}
UnloadCallSet(op, modes, selections, faultsets, connections) ==
    [op : {op}, trigger_unload : BOOLEAN, unload_mode : modes,
     force_garbage_collect : BOOLEAN, clear_cuda_cache : BOOLEAN,
     unload : selections, debug_output : BOOLEAN,
     cuda : BOOLEAN, faults : faultsets, kwargs : connections]

\* the calls of unload_models
UnloadModelsCalls ==
    UnloadCallSet("unload_models", UnloadModes \cup {"unknown"}, UnloadSelections(UnloaderTypes),
                  FaultSets, {Empty})

\* the calls of process_with_unload: every flag with all inputs or none
\* connected, and every pattern of connections with some of the flags
ProcessWithUnloadCalls ==
    UnloadCallSet("process_with_unload", UnloadModes \cup {"unknown"},
                  UnloadSelections(UnloaderIOTypes), FaultSets, {Empty, AllConnected})
    \cup {c \in UnloadCallSet("process_with_unload", {"balanced", "unknown"},
                              {SeqRange(UnloaderIOTypes)}, {{}, Faults}, Connections) :
             c.force_garbage_collect /\ c.clear_cuda_cache /\ c.cuda /\ ~c.debug_output}

-----------------------------------------------------------------------------
(* The image switches (image_switch.py).  NoneValue is Python's None.       *)

\* an image tensor given on an input
InputImage(id) == [kind |-> "image", id |-> id]

\* torch.zeros((1, 512, 512, 3), dtype=torch.float32)
BlankImage == [kind |-> "zeros", shape |-> <<1, 512, 512, 3>>, dtype |-> "float32"]

\* a return of a switch
Switched(image, status) == [how |-> "returned", image |-> image, status |-> status]

\* ImageSwitchManual.switch_images
SwitchImagesSelectedOnly(select_first, image_A, image_B) == Switched(IF select_first THEN image_A ELSE image_B, "output")
SwitchImages(select_first, image_A, image_B) ==
    IF select_first /\ image_A # NoneValue THEN Switched(image_A, "output image A")
    ELSE IF ~select_first /\ image_B # NoneValue THEN Switched(image_B, "output image B")
    ELSE IF select_first /\ image_A = NoneValue /\ image_B # NoneValue
    THEN Switched(image_B, "first image missing, switched to the second")
    ELSE IF ~select_first /\ image_B = NoneValue /\ image_A # NoneValue
    THEN Switched(image_A, "second image missing, switched to the first")
    ELSE Switched(BlankImage, "no input image, blank image created")

\* ImageSwitchAdvanced.advanced_switch
AdvancedSwitchAlwaysFallback(switch_mode, auto_fallback, image_A, image_B) == SwitchImages(switch_mode # "B", image_A, image_B)
AdvancedSwitch(switch_mode, auto_fallback, image_A, image_B) ==
    IF switch_mode = "auto"
    THEN IF image_A # NoneValue THEN Switched(image_A, "auto selected image A")
         ELSE IF image_B # NoneValue THEN Switched(image_B, "auto selected image B")
         ELSE Switched(BlankImage, "no image available, blank image created")
    ELSE IF switch_mode = "A" /\ image_A # NoneValue THEN Switched(image_A, "output image A")
    ELSE IF switch_mode = "A" /\ auto_fallback /\ image_B # NoneValue
    THEN Switched(image_B, "image A missing, fell back to image B")
    ELSE IF switch_mode # "A" /\ image_B # NoneValue THEN Switched(image_B, "output image B")
    ELSE IF switch_mode # "A" /\ auto_fallback /\ image_A # NoneValue
    THEN Switched(image_A, "image B missing, fell back to image A")
    ELSE Switched(BlankImage, "no image available, blank image created")

\* the images on the two inputs: not connected, or one of two tensors
ImageInputs == {NoneValue, InputImage("x"), InputImage("y")}

\* the calls of switch_images and advanced_switch
SwitchImagesCalls ==
    [op : {"switch_images"}, select_first : BOOLEAN, image_A : ImageInputs, image_B : ImageInputs]
AdvancedSwitchCalls ==
    [op : {"advanced_switch"}, switch_mode : {"A", "B", "auto"}, auto_fallback : BOOLEAN,
     image_A : ImageInputs, image_B : ImageInputs]

-----------------------------------------------------------------------------
(* The typed switches (utils.py).  A Python value is a record holding its   *)
(* type and its repr; NoneValue is None.                                      *)

\* a Python value
PyValue(type, repr) == [kind |-> type, v |-> repr]

\* bool(x) of a value
Truthy(x) == x # NoneValue /\ x.v \notin {"0", "0.0", "False", "", "[]"}

\* a return of a typed switch
SwitchReturn(value, status) == [how |-> "returned", value |-> value, status |-> status]

\* AudioSwitch.switch_audio; the default is torch.zeros((1, 44100), dtype=torch.float32)
SwitchAudio(select_input, input1, input2) ==
    IF select_input = "input1" /\ input1 # NoneValue THEN SwitchReturn(input1, "selected")
    ELSE IF select_input = "input2" /\ input2 # NoneValue THEN SwitchReturn(input2, "selected")
    ELSE IF input1 # NoneValue THEN SwitchReturn(input1, "fell back to input 1")
    ELSE IF input2 # NoneValue THEN SwitchReturn(input2, "fell back to input 2")
    ELSE SwitchReturn(PyValue("tensor", "zeros(1, 44100) float32"), "default used")

\* VideoSwitch.switch_video; the default is torch.zeros((1, 64, 64, 3), dtype=torch.float32)
SwitchVideo(select_input, input1, input2) ==
    IF select_input = "input1" /\ input1 # NoneValue THEN SwitchReturn(input1, "selected")
    ELSE IF select_input = "input2" /\ input2 # NoneValue THEN SwitchReturn(input2, "selected")
    ELSE IF input1 # NoneValue THEN SwitchReturn(input1, "fell back to input 1")
    ELSE IF input2 # NoneValue THEN SwitchReturn(input2, "fell back to input 2")
    ELSE SwitchReturn(PyValue("tensor", "zeros(1, 64, 64, 3) float32"), "default used")

\* LatentSwitch.switch_latent; the default is {"samples": torch.zeros([1, 4, 64, 64])}
SwitchLatent(select_input, input1, input2) ==
    IF select_input = "input1" /\ input1 # NoneValue THEN SwitchReturn(input1, "selected")
    ELSE IF select_input = "input2" /\ input2 # NoneValue THEN SwitchReturn(input2, "selected")
    ELSE IF input1 # NoneValue THEN SwitchReturn(input1, "fell back to input 1")
    ELSE IF input2 # NoneValue THEN SwitchReturn(input2, "fell back to input 2")
    ELSE SwitchReturn(PyValue("dict", "samples: zeros[1, 4, 64, 64]"), "default used")

\* ConditioningSwitch.switch_conditioning; the default is []
SwitchConditioning(select_input, input1, input2) ==
    IF select_input = "input1" /\ input1 # NoneValue THEN SwitchReturn(input1, "selected")
    ELSE IF select_input = "input2" /\ input2 # NoneValue THEN SwitchReturn(input2, "selected")
    ELSE IF input1 # NoneValue THEN SwitchReturn(input1, "fell back to input 1")
    ELSE IF input2 # NoneValue THEN SwitchReturn(input2, "fell back to input 2")
    ELSE SwitchReturn(PyValue("list", "[]"), "default used")

\* StringSwitch.switch_string; the default is ""
SwitchString(select_input, input1, input2) ==
    IF select_input = "input1" /\ input1 # NoneValue THEN SwitchReturn(input1, "selected")
    ELSE IF select_input = "input2" /\ input2 # NoneValue THEN SwitchReturn(input2, "selected")
    ELSE IF input1 # NoneValue THEN SwitchReturn(input1, "fell back to input 1")
    ELSE IF input2 # NoneValue THEN SwitchReturn(input2, "fell back to input 2")
    ELSE SwitchReturn(PyValue("str", ""), "default used")

\* IntSwitch.switch_int with "if input1" in place of "if input1 is not None"
SwitchIntTruthy(select_input, input1, input2) ==
    IF select_input = "input1" /\ Truthy(input1) THEN SwitchReturn(input1, "selected")
    ELSE IF select_input = "input2" /\ Truthy(input2) THEN SwitchReturn(input2, "selected")
    ELSE IF Truthy(input1) THEN SwitchReturn(input1, "fell back to input 1")
    ELSE IF Truthy(input2) THEN SwitchReturn(input2, "fell back to input 2")
    ELSE SwitchReturn(PyValue("int", "0"), "default used")

\* IntSwitch.switch_int; the default is 0
SwitchInt(select_input, input1, input2) ==
    IF select_input = "input1" /\ input1 # NoneValue THEN SwitchReturn(input1, "selected")
    ELSE IF select_input = "input2" /\ input2 # NoneValue THEN SwitchReturn(input2, "selected")
    ELSE IF input1 # NoneValue THEN SwitchReturn(input1, "fell back to input 1")
    ELSE IF input2 # NoneValue THEN SwitchReturn(input2, "fell back to input 2")
    ELSE SwitchReturn(PyValue("int", "0"), "default used")

\* FloatSwitch.switch_float; the default is 0.0
SwitchFloat(select_input, input1, input2) ==
    IF select_input = "input1" /\ input1 # NoneValue THEN SwitchReturn(input1, "selected")
    ELSE IF select_input = "input2" /\ input2 # NoneValue THEN SwitchReturn(input2, "selected")
    ELSE IF input1 # NoneValue THEN SwitchReturn(input1, "fell back to input 1")
    ELSE IF input2 # NoneValue THEN SwitchReturn(input2, "fell back to input 2")
    ELSE SwitchReturn(PyValue("float", "0.0"), "default used")

\* BooleanSwitch.switch_boolean; the default is False
SwitchBoolean(select_input, input1, input2) ==
    IF select_input = "input1" /\ input1 # NoneValue THEN SwitchReturn(input1, "selected")
    ELSE IF select_input = "input2" /\ input2 # NoneValue THEN SwitchReturn(input2, "selected")
    ELSE IF input1 # NoneValue THEN SwitchReturn(input1, "fell back to input 1")
    ELSE IF input2 # NoneValue THEN SwitchReturn(input2, "fell back to input 2")
    ELSE SwitchReturn(PyValue("bool", "False"), "default used")

\* the type of each typed switch and the values tried on its inputs
SwitchTypes ==
    [switch_audio |-> "tensor", switch_video |-> "tensor", switch_latent |-> "dict",
     switch_conditioning |-> "list", switch_string |-> "str", switch_int |-> "int",
     switch_float |-> "float", switch_boolean |-> "bool"]
SwitchValues ==
    [switch_audio |-> {"audio x", "audio y"},
     switch_video |-> {"video x", "video y"},
     switch_latent |-> {"latent x", "latent y"},
     switch_conditioning |-> {"[]", "[c]"},
     switch_string |-> {"", "text"},
     switch_int |-> {"0", "7"},
     switch_float |-> {"0.0", "1.5"},
     switch_boolean |-> {"False", "True"}]

\* the calls of one typed switch: each input is not connected or holds a value
TypedSwitchCalls(op) ==
    LET inputs == {NoneValue} \cup {PyValue(SwitchTypes[op], r) : r \in SwitchValues[op]}
    IN  [op : {op}, select_input : {"input1", "input2"}, input1 : inputs, input2 : inputs]
AllTypedSwitchCalls == UNION {TypedSwitchCalls(op) : op \in DOMAIN SwitchTypes}

-----------------------------------------------------------------------------
(* The import of the package (__init__.py).  A dict is a function of its    *)
(* keys; the namespace of the package holds the two mapping names.           *)

\* the modules of the first attempt, in import order, and of the second
Modules ==
    <<"empty_input_nodes", "empty_output_nodes", "vae_optimizer", "image_converter", "utils",
      "image_switch", "model_unloader", "model_unloader_io", "instant_preview_loader",
      "ksampler_with_info">>
BasicModules == SelectSeq(Modules, LAMBDA m : m # "model_unloader_io")

\* the keys of NODE_CLASS_MAPPINGS and of NODE_DISPLAY_NAME_MAPPINGS of each module
ModuleClassKeys ==
    [empty_input_nodes |->
         {"EmptyInputNode", "UniversalInputNode"},
     empty_output_nodes |->
         {"EmptyOutputNode", "UniversalOutputNode"},
     vae_optimizer |->
         {"VAEDecoderOptimizer", "SimpleVAEDecoder", "ImageDataTypeFix"},
     image_converter |->
         {"ImageToPixelInput", "PixelDataAnalyzer", "AdvancedImageSaver"},
     utils |->
         {"MemoryOptimizer", "WorkflowValidator", "AudioSwitch", "VideoSwitch", "LatentSwitch", "ConditioningSwitch", "StringSwitch", "IntSwitch", "FloatSwitch", "BooleanSwitch", "SimpleAudioSwitch", "SimpleVideoSwitch"},
     image_switch |->
         {"ImageSwitchManual", "ImageSwitchAdvanced", "ImageBlendSwitch"},
     model_unloader |->
         {"UniversalModelUnloader", "SmartMemoryManager"},
     model_unloader_io |->
         {"UniversalModelUnloaderWithIO", "SmartModelManager"},
     instant_preview_loader |->
         {"InstantPreviewImageLoader"},
     ksampler_with_info |->
         {"KSamplerWithInfo", "KSamplerAdvancedWithInfo"}]
ModuleDisplayKeys ==
    [empty_input_nodes |->
         {"EmptyInputNode", "UniversalInputNode"},
     empty_output_nodes |->
         {"EmptyOutputNode", "UniversalOutputNode"},
     vae_optimizer |->
         {"VAEDecoderOptimizer", "SimpleVAEDecoder", "ImageDataTypeFix"},
     image_converter |->
         {"ImageToPixelInput", "PixelDataAnalyzer", "AdvancedImageSaver"},
     utils |->
         {"MemoryOptimizer", "WorkflowValidator", "AudioSwitch", "VideoSwitch", "LatentSwitch", "ConditioningSwitch", "StringSwitch", "IntSwitch", "FloatSwitch", "BooleanSwitch", "SimpleAudioSwitch", "SimpleVideoSwitch"},
     image_switch |->
         {"ImageSwitchManual", "ImageSwitchAdvanced", "ImageBlendSwitch"},
     model_unloader |->
         {"UniversalModelUnloader", "SmartMemoryManager"},
     model_unloader_io |->
         {"UniversalModelUnloaderWithIO", "SmartModelManager"},
     instant_preview_loader |->
         {"InstantPreviewImageLoader"},
     ksampler_with_info |->
         {"KSamplerWithInfo", "KSamplerAdvancedWithInfo"}]

\* the two dicts of a module: a node name maps to its class, or to its title
ModuleClassMappings(m) == [k \in ModuleClassKeys[m] |-> [class |-> k, module |-> m]]
ModuleDisplayMappings(m) == [k \in ModuleDisplayKeys[m] |-> [title |-> k, module |-> m]]

\* {} and dict.update
EmptyDict == [k \in {} |-> k]
Update(d, other) == [k \in DOMAIN d \cup DOMAIN other |-> IF k \in DOMAIN other THEN other[k] ELSE d[k]]

\* a name the package has not bound
Undefined == [kind |-> "undefined"]

\* the namespace before the first statement, and after the two assignments of {}
NewNamespace == [NODE_CLASS_MAPPINGS |-> Undefined, NODE_DISPLAY_NAME_MAPPINGS |-> Undefined]
ResetMappings == [NODE_CLASS_MAPPINGS |-> EmptyDict, NODE_DISPLAY_NAME_MAPPINGS |-> EmptyDict]

\* from .m import *: no module declares __all__, so the two dicts of m are
\* bound in the package under their own names
StarImport(ns, m) == [NODE_CLASS_MAPPINGS |-> ModuleClassMappings(m), NODE_DISPLAY_NAME_MAPPINGS |-> ModuleDisplayMappings(m)]

\* the star imports of a list of modules, stopped by the first that raises
RECURSIVE ImportAll(_, _, _, _)
ImportAll(ns, modules, i, outcome) ==
    IF i > Len(modules) THEN [ns |-> ns, raised |-> "none"]
    ELSE IF outcome[modules[i]] # "ok" THEN [ns |-> ns, raised |-> outcome[modules[i]]]
    ELSE ImportAll(StarImport(ns, modules[i]), modules, i + 1, outcome)

\* for module in modules: the two update calls
RECURSIVE RegisterAll(_, _, _)
RegisterAll(ns, modules, i) ==
    IF i > Len(modules) THEN ns
    ELSE RegisterAll([NODE_CLASS_MAPPINGS |-> Update(ns.NODE_CLASS_MAPPINGS, ModuleClassMappings(modules[i])),
                      NODE_DISPLAY_NAME_MAPPINGS |-> Update(ns.NODE_DISPLAY_NAME_MAPPINGS, ModuleDisplayMappings(modules[i]))],
                     modules, i + 1)

\* the package after its import
Imported(how, ns) == [how |-> "returned", load |-> how, NODE_CLASS_MAPPINGS |-> ns.NODE_CLASS_MAPPINGS, NODE_DISPLAY_NAME_MAPPINGS |-> ns.NODE_DISPLAY_NAME_MAPPINGS]

\* except ImportError: the second attempt, entered with the given namespace
BasicLoad(ns, outcome) ==
    LET second == ImportAll(ns, BasicModules, 1, outcome)
    IN  IF second.raised = "none"
        THEN Imported("basic", RegisterAll(second.ns, BasicModules, 1))
        ELSE Imported("failed completely", second.ns)

\* the except ImportError branch without its two assignments of {}
HandleImportErrorNoReset(ns, outcome) == BasicLoad(ns, outcome)
HandleImportError(ns, outcome) == BasicLoad(ResetMappings, outcome)

\* the body of __init__.py
ImportPackage(outcome) ==
    LET first == ImportAll(NewNamespace, Modules, 1, outcome)
    IN  IF first.raised = "none" THEN Imported("full", RegisterAll(ResetMappings, Modules, 1))
        ELSE IF first.raised = "ImportError" THEN HandleImportError(first.ns, outcome)
        ELSE Imported("failed", ResetMappings)

\* what the import of each module does: at most MaxFailing modules raise
MaxFailing == 2
ImportOutcomes ==
    {o \in [SeqRange(Modules) -> {"ok", "ImportError", "Exception"}] :
        Cardinality({m \in SeqRange(Modules) : o[m] # "ok"}) <= MaxFailing}
ImportPackageCalls == [op : {"import_package"}, outcome : ImportOutcomes]

-----------------------------------------------------------------------------
(* ImageDataTypeFix (vae_optimizer.py), on the tensors of the VAE nodes.    *)

\* if force_float32: uint8 is divided by 255, every other dtype is cast
ForceFloat32(t, force_float32) ==
    IF ~force_float32 THEN t
    ELSE IF t.dtype = "uint8" THEN ConvertUint8(t)
    ELSE [t EXCEPT !.dtype = "float32"]

\* the 5-dimensional case: squeeze(0).squeeze(0), or squeeze(0)
FixSqueeze5D(s) ==
    IF Len(s) = 5 /\ s[1] = 1 /\ s[2] = 1 THEN SubSeq(s, 3, 5)
    ELSE IF Len(s) = 5 /\ s[1] = 1 THEN SubSeq(s, 2, 5)
    ELSE s

\* the (1, 1, H, W) case: permute(0, 2, 1, 3) when the last dimension is 3,
\* squeeze(1) otherwise
FixSingleChannel(s) ==
    IF Len(s) = 4 /\ s[1] = 1 /\ s[2] = 1
    THEN IF s[4] = 3 THEN <<s[1], s[3], s[2], s[4]>> ELSE <<s[1], s[3], s[4]>>
    ELSE s

\* the last case: unsqueeze(0) or unsqueeze(-1).repeat(1, 1, 1, 3) of three
\* dimensions, permute(0, 2, 3, 1) of (B, 3, H, W)
FixStandardShape(s) ==
    IF Len(s) = 3
    THEN IF s[3] = 3 THEN <<1>> \o s ELSE <<s[1], s[2], s[3], 3>>
    ELSE IF Len(s) = 4 /\ s[2] = 3 THEN <<s[1], s[3], s[4], s[2]>>
    ELSE s

\* fixed_shapes is not empty: one of the three cases applied
ShapeCaseApplies(s) ==
    \/ Len(s) = 5 /\ s[1] = 1
    \/ \E s1 \in {FixSqueeze5D(s)} : Len(s1) = 4 /\ s1[1] = 1 /\ s1[2] = 1
    \/ \E s2 \in {FixSingleChannel(FixSqueeze5D(s))} : Len(s2) = 3 \/ (Len(s2) = 4 /\ s2[2] = 3)

\* if fix_problematic_shapes: the three cases in turn
FixProblematicShapes(t, fix_problematic_shapes) ==
    IF ~fix_problematic_shapes THEN t
    ELSE [t EXCEPT !.shape = FixStandardShape(FixSingleChannel(FixSqueeze5D(t.shape)))]

\* the compatibility test that chooses the last line of the report
RepairSucceeded(t) == Rank(t) = 4 /\ t.shape[4] = 3 /\ t.dtype = "float32"

\* ImageDataTypeFix.fix_data_type
FixDataType(image, force_float32, fix_problematic_shapes) ==
    LET fixed == FixProblematicShapes(ForceFloat32(image, force_float32), fix_problematic_shapes)
    IN  [how |-> "returned", image |-> fixed,
         report |-> <<"repair report", "original data">>
                    \o (IF ~force_float32 THEN <<>>
                        ELSE IF image.dtype = "uint8" THEN <<"uint8 to float32">>
                        ELSE IF image.dtype # "float32" THEN <<"dtype to float32">>
                        ELSE <<"already float32">>)
                    \o (IF ~fix_problematic_shapes THEN <<>>
                        ELSE IF ShapeCaseApplies(image.shape) THEN <<"shape repaired">>
                        ELSE <<"shape normal">>)
                    \o <<"after repair">>
                    \o (IF RepairSucceeded(fixed) THEN <<"repair succeeded">>
                        ELSE <<"repair done, shape may need adjusting">>)]

\* the calls of fix_data_type: every shape of the VAE nodes, in two dtypes
FixDataTypeCalls ==
    [op : {"fix_data_type"},
     image : {Tensor(sh, dt, {0, Scale}) : sh \in Shapes, dt \in {"uint8", "float32"}},
     force_float32 : BOOLEAN, fix_problematic_shapes : BOOLEAN]

-----------------------------------------------------------------------------
(* UniversalOutputNode (empty_output_nodes.py).                              *)

\* what may be connected to any_input: a tensor, a dict, a conditioning list
InputTensor(shape) == [kind |-> "tensor", shape |-> shape, from |-> "any_input"]
InputDict(keys) == [kind |-> "dict", keys |-> keys, from |-> "any_input"]
InputList == [kind |-> "list", from |-> "any_input"]

\* torch.zeros, torch.ones and the latent dict of the fallback branches
FallbackTensor(fill, shape) == [kind |-> "tensor", shape |-> shape, fill |-> fill]
FallbackLatent(shape) == [kind |-> "dict", keys |-> {"samples"}, samples |-> FallbackTensor(0, shape)]

\* a return of universal_output
OutputReturn(image, latent, mask, mode_info) == [how |-> "returned", image |-> image, latent |-> latent, mask |-> mask, mode_info |-> mode_info]

\* the branches taken when any_input is None or is not recognised
FallbackOutput(output_type, fallback_width, fallback_height, mode_info) ==
    LET info == Append(mode_info, "using fallback data")
    IN  IF output_type = "auto" \/ output_type = "image"
        THEN OutputReturn(FallbackTensor(0, <<1, fallback_height, fallback_width, 3>>), NoneValue, NoneValue,
                          Append(info, "fallback image"))
        ELSE IF output_type = "latent"
        THEN OutputReturn(NoneValue, FallbackLatent(<<1, 4, fallback_height \div 8, fallback_width \div 8>>), NoneValue,
                          Append(info, "fallback latent"))
        ELSE IF output_type = "mask"
        THEN OutputReturn(NoneValue, NoneValue, FallbackTensor(1, <<fallback_height, fallback_width>>),
                          Append(info, "fallback mask"))
        ELSE OutputReturn(FallbackTensor(0, <<1, fallback_height, fallback_width, 3>>), NoneValue, NoneValue,
                          Append(info, "default fallback image"))

\* UniversalOutputNode.universal_output
UniversalOutput(output_type, fallback_width, fallback_height, any_input) ==
    LET mode_info == <<"output type", output_type, "fallback size">>
        used == Append(mode_info, "using input data")
    IN  IF any_input = NoneValue
        THEN FallbackOutput(output_type, fallback_width, fallback_height, mode_info)
        ELSE IF any_input.kind = "tensor" /\ Len(any_input.shape) = 4 /\ any_input.shape[4] \in {3, 4}
        THEN OutputReturn(any_input, NoneValue, NoneValue, Append(used, "image passed"))
        ELSE IF any_input.kind = "tensor" /\ Len(any_input.shape) = 2
        THEN OutputReturn(NoneValue, NoneValue, any_input, Append(used, "mask passed"))
        ELSE IF any_input.kind = "dict" /\ "samples" \in any_input.keys
        THEN OutputReturn(NoneValue, any_input, NoneValue, Append(used, "latent passed"))
        ELSE FallbackOutput(output_type, fallback_width, fallback_height, used)

\* the calls of universal_output
AnyInputs ==
    {NoneValue, InputList, InputDict({"samples"}), InputDict({"noise_mask"})}
    \cup {InputTensor(sh) : sh \in {s \in Shapes : Len(s) <= 4}}
UniversalOutputCalls ==
    [op : {"universal_output"}, output_type : {"image", "latent", "mask", "auto"},
     fallback_width : {64, 512}, fallback_height : {64}, any_input : AnyInputs]

-----------------------------------------------------------------------------
(* The specification of the nodes without state: a call is chosen, then the *)
(* node function is applied to it.                                          *)

NodeCalls ==
    UnloadModelsCalls \cup ProcessWithUnloadCalls
    \cup SwitchImagesCalls \cup AdvancedSwitchCalls
    \cup AllTypedSwitchCalls
    \cup ImportPackageCalls
    \cup FixDataTypeCalls
    \cup UniversalOutputCalls

NodeInit ==
    /\ nodeCall \in NodeCalls
    /\ nodeResult = [how |-> "none"]
    /\ LoaderIdle
    /\ VaeIdle
    /\ SaverIdle

\* the call has not been made yet
Pending(op) == nodeCall.op = op /\ nodeResult.how = "none"

\* the host runs UniversalModelUnloader
CallUnloadModels ==
    /\ Pending("unload_models")
    /\ \E r \in {UnloadModels(nodeCall)} :
         nodeResult' = [how |-> "returned", report |-> r.report, memory |-> r.memory,
                        effects |-> r.effects]
    /\ UNCHANGED <<nodeCall, loaderVars, vaeVars, saverVars>>

\* the host runs UniversalModelUnloaderWithIO
CallProcessWithUnload ==
    /\ Pending("process_with_unload")
    /\ nodeResult' = ProcessWithUnload(nodeCall)
    /\ UNCHANGED <<nodeCall, loaderVars, vaeVars, saverVars>>

\* the host runs ImageSwitchManual
CallSwitchImages ==
    /\ Pending("switch_images")
    /\ nodeResult' = SwitchImages(nodeCall.select_first, nodeCall.image_A, nodeCall.image_B)
    /\ UNCHANGED <<nodeCall, loaderVars, vaeVars, saverVars>>

\* the host runs ImageSwitchAdvanced
CallAdvancedSwitch ==
    /\ Pending("advanced_switch")
    /\ nodeResult' = AdvancedSwitch(nodeCall.switch_mode, nodeCall.auto_fallback,
                                    nodeCall.image_A, nodeCall.image_B)
    /\ UNCHANGED <<nodeCall, loaderVars, vaeVars, saverVars>>

\* the host runs AudioSwitch
CallSwitchAudio ==
    /\ Pending("switch_audio")
    /\ nodeResult' = SwitchAudio(nodeCall.select_input, nodeCall.input1, nodeCall.input2)
    /\ UNCHANGED <<nodeCall, loaderVars, vaeVars, saverVars>>

\* the host runs VideoSwitch
CallSwitchVideo ==
    /\ Pending("switch_video")
    /\ nodeResult' = SwitchVideo(nodeCall.select_input, nodeCall.input1, nodeCall.input2)
    /\ UNCHANGED <<nodeCall, loaderVars, vaeVars, saverVars>>

\* the host runs LatentSwitch
CallSwitchLatent ==
    /\ Pending("switch_latent")
    /\ nodeResult' = SwitchLatent(nodeCall.select_input, nodeCall.input1, nodeCall.input2)
    /\ UNCHANGED <<nodeCall, loaderVars, vaeVars, saverVars>>

\* the host runs ConditioningSwitch
CallSwitchConditioning ==
    /\ Pending("switch_conditioning")
    /\ nodeResult' = SwitchConditioning(nodeCall.select_input, nodeCall.input1, nodeCall.input2)
    /\ UNCHANGED <<nodeCall, loaderVars, vaeVars, saverVars>>

\* the host runs StringSwitch
CallSwitchString ==
    /\ Pending("switch_string")
    /\ nodeResult' = SwitchString(nodeCall.select_input, nodeCall.input1, nodeCall.input2)
    /\ UNCHANGED <<nodeCall, loaderVars, vaeVars, saverVars>>

\* the host runs IntSwitch
CallSwitchInt ==
    /\ Pending("switch_int")
    /\ nodeResult' = SwitchInt(nodeCall.select_input, nodeCall.input1, nodeCall.input2)
    /\ UNCHANGED <<nodeCall, loaderVars, vaeVars, saverVars>>

\* the host runs FloatSwitch
CallSwitchFloat ==
    /\ Pending("switch_float")
    /\ nodeResult' = SwitchFloat(nodeCall.select_input, nodeCall.input1, nodeCall.input2)
    /\ UNCHANGED <<nodeCall, loaderVars, vaeVars, saverVars>>

\* the host runs BooleanSwitch
CallSwitchBoolean ==
    /\ Pending("switch_boolean")
    /\ nodeResult' = SwitchBoolean(nodeCall.select_input, nodeCall.input1, nodeCall.input2)
    /\ UNCHANGED <<nodeCall, loaderVars, vaeVars, saverVars>>

\* the host imports the package
CallImportPackage ==
    /\ Pending("import_package")
    /\ nodeResult' = ImportPackage(nodeCall.outcome)
    /\ UNCHANGED <<nodeCall, loaderVars, vaeVars, saverVars>>

\* the host runs ImageDataTypeFix
CallFixDataType ==
    /\ Pending("fix_data_type")
    /\ nodeResult' = FixDataType(nodeCall.image, nodeCall.force_float32, nodeCall.fix_problematic_shapes)
    /\ UNCHANGED <<nodeCall, loaderVars, vaeVars, saverVars>>

\* the host runs UniversalOutputNode
CallUniversalOutput ==
    /\ Pending("universal_output")
    /\ nodeResult' = UniversalOutput(nodeCall.output_type, nodeCall.fallback_width,
                                     nodeCall.fallback_height, nodeCall.any_input)
    /\ UNCHANGED <<nodeCall, loaderVars, vaeVars, saverVars>>

NodeNext ==
    \/ CallUnloadModels \/ CallProcessWithUnload
    \/ CallSwitchImages \/ CallAdvancedSwitch
    \/ CallSwitchAudio \/ CallSwitchVideo \/ CallSwitchLatent \/ CallSwitchConditioning
    \/ CallSwitchString \/ CallSwitchInt \/ CallSwitchFloat \/ CallSwitchBoolean
    \/ CallImportPackage \/ CallFixDataType \/ CallUniversalOutput

SpecNodes == NodeInit /\ [][NodeNext]_vars
\* ---- end: nodes without state

-----------------------------------------------------------------------------
(* Properties of the directory monitor (SpecMonitor).                       *)

\* a step of load_image: it leaves the clock and the files alone
LoadStep == now' = now /\ disk' = disk

\* a load_image call in 目录监控模式 that returned an image
MonitorSuccess(o) == o.how \in {"read", "cached"} /\ o.mode = MonitorMode

\* the file whose image the call returned
Returned(o) == o.image.name[1]

\* C1 as stated: every successful load_image call in directory-monitor mode
\* returns the image of the supported file with the newest modification time
\* in the directory at the time of the call.
C1_NewestAtCall ==
    [][(LoadStep /\ MonitorSuccess(out')) => Returned(out') \in Newest(disk)]_vars

\* C1 amended: a successful call returns a supported file that was the newest
\* when the node last read the directory's file list; the list is read in
\* exactly the calls for which a refresh is due or no list is cached (the
\* first call, or 禁用缓存 having cleared it), and such a call returns the file
\* that is the newest at the time of the call.
C1_NewestAtLastListing ==
    [][(LoadStep /\ MonitorSuccess(out')) =>
          /\ Returned(out') \in snapshot'
          /\ out'.listed <=> (\/ out'.needs_refresh
                              \/ "dir" \notin DOMAIN monitor_cache
                              \/ out'.policy = NoCache)
          /\ out'.listed => Returned(out') \in Newest(disk)]_vars

\* C1 witness: a call answered from a stale file list, a newer file being in
\* the directory
C1_Witness ==
    /\ MonitorSuccess(out) /\ ~out.listed
    /\ Newest(disk) # {} /\ Returned(out) \notin Newest(disk)
    /\ Returned(out) \in snapshot

\* C2 as stated: with 智能缓存, whenever load_image returns a cached image for
\* a file, the file has not been modified since the cached copy was read.
C2_CachedIsCurrent ==
    [][(LoadStep /\ MonitorSuccess(out') /\ out'.policy = SmartCache
        /\ out'.how = "cached")
          => out'.image.ver = disk[Returned(out')].ver]_vars

\* C2 amended: with 智能缓存, a file whose modification time is later than
\* monitor_last_time is always re-read; a cached image is returned only for a
\* file whose modification time is not later than monitor_last_time, and it
\* differs from the file only when the file was rewritten at the very clock
\* reading of the load that read the cached copy.
C2_CachedNotNewerThanLastLoad ==
    [][(LoadStep /\ MonitorSuccess(out') /\ out'.policy = SmartCache) =>
          LET f == Returned(out') IN
          /\ GetMTime(disk, f) > monitor_last_time => out'.how = "read"
          /\ out'.how = "read" => out'.image.ver = disk[f].ver
          /\ out'.how = "cached" =>
                /\ GetMTime(disk, f) <= monitor_last_time
                /\ f = monitor_last_file
                /\ \/ out'.image.ver = disk[f].ver
                   \/ GetMTime(disk, f) = monitor_last_time]_vars

\* C2 witness: a cached image returned for a file that was rewritten after
\* construction and read again since
C2_Witness ==
    /\ MonitorSuccess(out) /\ out.policy = SmartCache /\ out.how = "cached"
    /\ disk[Returned(out)].ver = 2
    /\ out.image.ver = 2

-----------------------------------------------------------------------------
(* Properties of load_image in all its modes (SpecLoader).                  *)

\* the blank output with this error message as its status
IsBlank(o, error_message) ==
    /\ o.image = [kind |-> "zeros", shape |-> <<1, 512, 512, 3>>, dtype |-> "float32"]
    /\ o.mask = [kind |-> "ones", shape |-> <<1, 512, 512>>, dtype |-> "float32"]
    /\ o.status = error_message

\* the 外部路径 of the call names a file of a supported format
UploadPathValid(path) ==
    PathIsFile(disk, path) /\ FileExt(path) \in SeqRange(SUPPORTED_EXT)

\* C6: every failing path of load_image returns the blank output, a zero image
\* of shape (1, 512, 512, 3), an all-ones mask of shape (1, 512, 512) and the
\* error message as the status: an empty 外部路径 in upload or monitor mode, a
\* path that fails validation, a failed upload, no image in the monitored
\* directory, an unreadable latest file, no or a missing file in preview mode,
\* an exception while loading.
C6_FailuresReturnBlank ==
    [][LET o == out'
           path == Strip(o.call.external_path)
       IN
       /\ o.how \in {"failed", "read", "cached"}
       /\ o.how = "failed" =>
             /\ IsBlank(o, o.status)
             /\ o.status # <<>>
       /\ o.mode = UploadMode =>
             /\ path = "" => IsBlank(o, <<"no file path given">>)
             /\ (path # "" /\ ~UploadPathValid(path)) =>
                   /\ Len(o.status) = 2
                   /\ IsBlank(o, <<"path validation failed", o.status[2]>>)
             /\ (UploadPathValid(path) /\ ~o.call.verifies) =>
                   IsBlank(o, <<"file upload failed">>)
             /\ (UploadPathValid(path) /\ o.call.verifies /\ ~o.call.decodable) =>
                   IsBlank(o, <<"loading the image failed">>)
       /\ o.mode = MonitorMode =>
             /\ path = "" => IsBlank(o, <<"no directory path given">>)
             /\ (path # "" /\ ~PathIsDir(disk, path)) =>
                   /\ Len(o.status) = 2
                   /\ IsBlank(o, <<"path validation failed", o.status[2]>>)
             /\ (PathIsDir(disk, path) /\ monitor_cache'[path].files = <<>>) =>
                   IsBlank(o, <<"no image file in the monitored directory">>)
             /\ (PathIsDir(disk, path) /\ monitor_cache'[path].files # <<>>
                 /\ ~o.call.decodable /\ o.how # "cached") =>
                   IsBlank(o, <<"cannot load image", monitor_cache'[path].files[1]>>)
       /\ o.mode = PreviewMode =>
             /\ o.call.image = NoName => IsBlank(o, <<"no image file selected">>)
             /\ (o.call.image # NoName /\ o.call.image \notin DOMAIN inputDir) =>
                   IsBlank(o, <<"image file does not exist", o.call.image[1]>>)
             /\ (o.call.image \in DOMAIN inputDir /\ ~o.call.decodable
                 /\ o.how # "cached") =>
                   IsBlank(o, <<"loading the image failed">>)
      ]_vars

\* C6 witness: the latest file of the monitored directory could not be read,
\* and the call returned the blank output
C6_Witness ==
    /\ out.how = "failed" /\ out.mode = MonitorMode
    /\ Len(out.status) = 2 /\ out.status[1] = "cannot load image"
    /\ IsBlank(out, out.status)

-----------------------------------------------------------------------------
(* Properties of VAEDecoderOptimizer (SpecVae).                             *)

\* ensure_compatible_output was called and returned a tensor
EnsureReturned == vaeCall.op = "ensure" /\ vaeResult.how = "returned"

\* C3: with fix_tensor_shape = true, ensure_compatible_output returns a tensor
\* in the standard (B, H, W, 3) format, four dimensions with last dimension 3,
\* for every input tensor of 2, 3, 4 or 5 dimensions.
C3_StandardShape ==
    (EnsureReturned /\ vaeCall.fix_tensor_shape /\ Rank(vaeCall.image) \in 2..5)
        => /\ Rank(vaeResult.image) = 4
           /\ vaeResult.image.shape[4] = 3

\* C4: with normalize_output = true every value of the tensor returned by
\* ensure_compatible_output lies in [0, 1], for every input value range.
C4_ValuesInUnitRange ==
    (EnsureReturned /\ vaeCall.normalize_output)
        => \A x \in vaeResult.image.vals : 0 <= x /\ x <= Scale

\* C5: with ensure_float32 = true the returned tensor is float32 for every
\* input dtype; a uint8 input is converted to float32 and divided by 255
\* whether or not ensure_float32 is set.
C5_Float32 ==
    EnsureReturned =>
        /\ vaeCall.ensure_float32 => vaeResult.image.dtype = "float32"
        /\ vaeCall.image.dtype = "uint8" =>
              /\ vaeResult.image.dtype = "float32"
              /\ vaeResult.image.vals = {x \div 255 : x \in vaeCall.image.vals}

\* C5 witness: a float16 tensor came back as float32
C5_Witness ==
    /\ EnsureReturned /\ vaeCall.ensure_float32
    /\ vaeCall.image.dtype = "float16"
    /\ vaeResult.image.dtype = "float32"

\* output normalization throws for this call of optimized_decode
NormalizationThrows == vaeCall.normalize_output /\ vaeCall.decoded.vals = {}

\* C7: optimized_decode never raises; when decoding or output normalization
\* throws it returns the fallback image, (1, 512, 512, 3) float32 zeros, with a
\* status that holds the error text; the status is never empty, whatever the
\* flags, debug_output = false included.
C7_DecodeAlwaysReturns ==
    (vaeCall.op = "decode" /\ vaeResult.how # "none") =>
        /\ vaeResult.how = "returned"
        /\ vaeResult.status # <<>>
        /\ \A i \in 1..Len(vaeResult.status) : vaeResult.status[i] # ""
        /\ vaeCall.decode_raises =>
              /\ vaeResult.image = [shape |-> <<1, 512, 512, 3>>, dtype |-> "float32", vals |-> {0}]
              /\ "decode error" \in SeqRange(vaeResult.status)
        /\ (~vaeCall.decode_raises /\ NormalizationThrows) =>
              /\ vaeResult.image = [shape |-> <<1, 512, 512, 3>>, dtype |-> "float32", vals |-> {0}]
              /\ "min(): tensor has no elements" \in SeqRange(vaeResult.status)
        /\ (~vaeCall.decode_raises /\ ~NormalizationThrows) => ~vaeResult.raised

\* C7 witness: with debug_output = false the decode succeeded and the status
\* is the default line
C7_Witness ==
    /\ vaeCall.op = "decode" /\ vaeResult.how = "returned"
    /\ ~vaeCall.debug_output /\ ~vaeResult.raised
    /\ Len(vaeResult.status) = 1

-----------------------------------------------------------------------------
(* Properties of AdvancedImageSaver (SpecSaver).                            *)

\* the numbers of the files of one directory, prefix and extension
SameSeries(f, g) == f.dir = g.dir /\ f.prefix = g.prefix /\ f.ext = g.ext

\* C8: save_images never overwrites an existing file: the names chosen for a
\* batch differ from each other and from every file already in the directory,
\* and a call uses numbers strictly greater than those of the call before it
\* when both save with the same directory, prefix and format.  Checked for
\* the calls whose directory listing can be read.
C8_NeverOverwrites ==
    [][(saveCall'.op = "save" /\ ~saveCall'.listdir_raises) =>
          \A i \in 1..Len(saveResult'.saved_files) :
              LET f == saveResult'.saved_files[i]
              IN  /\ f \notin DOMAIN saveFiles
                  /\ \A j \in 1..Len(saveResult'.saved_files) :
                         j # i => saveResult'.saved_files[j] # f
                  /\ saveResult.how = "returned" =>
                         \A k \in 1..Len(saveResult.saved_files) :
                             SameSeries(saveResult.saved_files[k], f)
                                 => saveResult.saved_files[k].num_part.n < f.num_part.n]_vars

\* the metadata holds a prompt or a negative prompt
HasPromptMetadata(m) ==
    \/ m.kind = "pnginfo" /\ (m.Prompt.set \/ m.NegativePrompt.set)
    \/ m.kind = "exif" /\ m.UserComment.set

\* the report of the last call has the line 工作流信息: 已嵌入
ReportsEmbedded == \E i \in 1..Len(saveResult.details) : saveResult.details[i] = WorkflowEmbeddedLine

\* C9: with 嵌入工作流 = false save_images writes every image without prompt or
\* negative-prompt metadata, in each of the formats PNG, JPG, WEBP, BMP and
\* TIFF; and the report has the line 工作流信息: 已嵌入 only when metadata was
\* embedded into the files the call wrote.
C9_NoMetadataUnlessAsked ==
    (saveCall.op = "save" /\ saveCall.auto_save /\ saveResult.how = "returned") =>
        /\ ~saveCall.embed_workflow =>
               \A i \in 1..Len(saveResult.saved_files) :
                   ~HasPromptMetadata(saveFiles[saveResult.saved_files[i]].metadata)
        /\ ReportsEmbedded =>
               /\ saveResult.saved_files # <<>>
               /\ \A i \in 1..Len(saveResult.saved_files) :
                      saveFiles[saveResult.saved_files[i]].metadata # NoMetadata

\* C10: with 自动保存 = false save_images creates no directory, writes no file
\* and returns the single status 等待自动保存启用..., whatever the other inputs.
C10_DisabledChangesNothing ==
    [][(saveCall'.op = "save" /\ ~saveCall'.auto_save) =>
          /\ saveDirs' = saveDirs
          /\ saveFiles' = saveFiles
          /\ saveResult'.how = "returned"
          /\ saveResult'.details = <<WaitingLine>>]_vars

\* C10 witness: a disabled call that names a custom directory and an image
\* returned the waiting status, and the directory does not exist
C10_Witness ==
    /\ saveCall.op = "save" /\ ~saveCall.auto_save
    /\ saveCall.images # <<>>
    /\ saveCall.save_directory = CustomDirectory /\ saveCall.date_directory
    /\ saveResult.details = <<WaitingLine>>
    /\ <<"dir">> \notin saveDirs

\* ---- begin: node properties
-----------------------------------------------------------------------------
(* Properties of the nodes without state (SpecNodes).                       *)

\* the call of the node function op has returned
NodeReturned(op) == nodeCall.op = op /\ nodeResult.how = "returned"

\* C11: process_with_unload does not interrupt the data flow: for every
\* combination of flags, and when the unload operation fails internally, it
\* returns, and each of the eight typed outputs is the object given on the
\* matching input, or None when that input is not connected.
C11_PassesInputsThrough ==
    nodeCall.op = "process_with_unload" /\ nodeResult.how # "none" =>
        /\ nodeResult.how = "returned"
        /\ Len(nodeResult.outputs) = 8
        /\ \A i \in 1..8 :
               LET key == PassthroughInputs[i]
               IN  nodeResult.outputs[i] =
                       IF key \in DOMAIN nodeCall.kwargs THEN nodeCall.kwargs[key] ELSE None

\* C11 witness: the unload failed on an unknown mode while some inputs were
\* connected and others not, and the connected objects came out
C11_Witness ==
    /\ NodeReturned("process_with_unload")
    /\ nodeCall.trigger_unload /\ nodeCall.unload_mode = "unknown"
    /\ DOMAIN nodeCall.kwargs = {"image_input", "model_input"}
    /\ nodeResult.outputs = <<"image_input", None, None, None, None, "model_input", None, None>>
    /\ \E i \in 1..Len(nodeResult.report) : nodeResult.report[i].line = "unload failed"

\* C12: with trigger_unload = false, unload_models and
\* execute_unload_operation perform no model unload step, no garbage
\* collection, no CUDA cache clearing and no memory-statistics query, and
\* return exactly the pair (🔄 卸载操作未触发, 无操作).
C12_UntriggeredDoesNothing ==
    (nodeCall.op \in {"unload_models", "process_with_unload"}
     /\ nodeResult.how = "returned" /\ ~nodeCall.trigger_unload) =>
        /\ nodeResult.effects = <<>>
        /\ nodeResult.report = <<NotTriggeredLine>>
        /\ nodeResult.memory = <<NoOperationLine>>

\* C12 witness: unload_models returned the pair with every switch on
C12_Witness ==
    /\ NodeReturned("unload_models") /\ ~nodeCall.trigger_unload
    /\ nodeCall.force_garbage_collect /\ nodeCall.clear_cuda_cache /\ nodeCall.cuda
    /\ nodeCall.unload = SeqRange(UnloaderTypes)
    /\ nodeResult.report = <<NotTriggeredLine>> /\ nodeResult.effects = <<>>

\* C13: switch_images works with a single input: for every select_first and
\* every presence pattern of image_A and image_B it returns the selected image
\* when it is connected, otherwise the other image when that one is connected,
\* otherwise a blank image of shape (1, 512, 512, 3); the image is never None.
C13_ManualSwitch ==
    NodeReturned("switch_images") =>
        LET selected == IF nodeCall.select_first THEN nodeCall.image_A ELSE nodeCall.image_B
            other == IF nodeCall.select_first THEN nodeCall.image_B ELSE nodeCall.image_A
        IN  /\ nodeResult.image # NoneValue
            /\ nodeResult.image =
                   IF selected # NoneValue THEN selected
                   ELSE IF other # NoneValue THEN other
                   ELSE [kind |-> "zeros", shape |-> <<1, 512, 512, 3>>, dtype |-> "float32"]

\* C13 witness: the second image is selected, only image_A is connected, and
\* image_A came out
C13_Witness ==
    /\ NodeReturned("switch_images")
    /\ ~nodeCall.select_first
    /\ nodeCall.image_A = InputImage("x") /\ nodeCall.image_B = NoneValue
    /\ nodeResult.image = InputImage("x")

\* C14: each typed switch (audio, video, latent, conditioning, string, int,
\* float, boolean) returns the selected input unchanged whenever it is not
\* None (0, 0.0, False and "" count as present), otherwise the other input
\* when it is not None, otherwise the default of its type; the value is never
\* None, and all eight compute this same selection up to the default.
C14_TypedSwitches ==
    \A op \in DOMAIN SwitchTypes :
        NodeReturned(op) =>
            LET first == nodeCall.select_input = "input1"
                default ==
                    [switch_audio |-> PyValue("tensor", "zeros(1, 44100) float32"),
                     switch_video |-> PyValue("tensor", "zeros(1, 64, 64, 3) float32"),
                     switch_latent |-> PyValue("dict", "samples: zeros[1, 4, 64, 64]"),
                     switch_conditioning |-> PyValue("list", "[]"),
                     switch_string |-> PyValue("str", ""),
                     switch_int |-> PyValue("int", "0"),
                     switch_float |-> PyValue("float", "0.0"),
                     switch_boolean |-> PyValue("bool", "False")]
                selected == IF first THEN nodeCall.input1 ELSE nodeCall.input2
                other == IF first THEN nodeCall.input2 ELSE nodeCall.input1
            IN  /\ nodeResult.value # NoneValue
                /\ IF selected # NoneValue THEN nodeResult.value = selected
                   ELSE IF other # NoneValue THEN nodeResult.value = other
                   ELSE nodeResult.value = default[op]

\* C14 witness: the int switch is given 0 on the selected input and 7 on the
\* other and returned the 0
C14_Witness ==
    /\ NodeReturned("switch_int")
    /\ nodeCall.select_input = "input1"
    /\ nodeCall.input1 = PyValue("int", "0") /\ nodeCall.input2 = PyValue("int", "7")
    /\ nodeResult.value = PyValue("int", "0")

\* C15: after the package is imported NODE_CLASS_MAPPINGS and
\* NODE_DISPLAY_NAME_MAPPINGS are always defined dicts, whatever import
\* fails; on a full load NODE_CLASS_MAPPINGS is the union of the ten module
\* mappings, no key is defined by two modules (32 nodes), and the two dicts
\* have exactly the same key set.
C15_MappingsDefined ==
    NodeReturned("import_package") =>
        LET names == SeqRange(Modules)
        IN  /\ nodeResult.NODE_CLASS_MAPPINGS # [kind |-> "undefined"]
            /\ nodeResult.NODE_DISPLAY_NAME_MAPPINGS # [kind |-> "undefined"]
            /\ (\A m \in names : nodeCall.outcome[m] = "ok") =>
                  /\ Cardinality(names) = 10
                  /\ DOMAIN nodeResult.NODE_CLASS_MAPPINGS = UNION {ModuleClassKeys[m] : m \in names}
                  /\ \A m \in names : \A k \in ModuleClassKeys[m] :
                         nodeResult.NODE_CLASS_MAPPINGS[k] = [class |-> k, module |-> m]
                  /\ \A m1, m2 \in names :
                         m1 # m2 => ModuleClassKeys[m1] \cap ModuleClassKeys[m2] = {}
                  /\ Cardinality(DOMAIN nodeResult.NODE_CLASS_MAPPINGS) = 32
                  /\ DOMAIN nodeResult.NODE_DISPLAY_NAME_MAPPINGS = DOMAIN nodeResult.NODE_CLASS_MAPPINGS

\* C15 witness: the first module raised ImportError, in the first attempt
\* and in the second, and both names are bound to empty dicts
C15_Witness ==
    /\ NodeReturned("import_package")
    /\ nodeCall.outcome["empty_input_nodes"] = "ImportError"
    /\ nodeResult.load = "failed completely"
    /\ DOMAIN nodeResult.NODE_CLASS_MAPPINGS = {}
    /\ DOMAIN nodeResult.NODE_DISPLAY_NAME_MAPPINGS = {}

-----------------------------------------------------------------------------
(* InstantPreviewImageLoader: the refresh policy and the auto refresh.      *)

\* C16: with 缓存策略 = 始终刷新 every load_image call that answers with an
\* image is a refresh: the image is read from disk and not taken from
\* self.cache, and in 目录监控模式 the directory file list is read from disk
\* and not taken from self.monitor_cache.
C16_AlwaysRefreshRereads ==
    (out.how \in {"read", "cached"} /\ out.policy = AlwaysRefresh) =>
        /\ out.how = "read"
        /\ out.mode = MonitorMode => out.listed

\* C17: with 自动刷新间隔 = 0 no load_image call triggers an auto refresh;
\* with an interval N > 0 a call triggers one exactly when at least N seconds
\* have passed since the last call that triggered one (since time 0 before
\* any did), the time of which last_auto_refresh keeps; so two triggers are
\* never less than N seconds apart.
C17_AutoRefreshFollowsInterval ==
    [][(now' = now /\ disk' = disk) =>
          LET N == out'.call.auto_refresh
          IN  /\ N = 0 => ~out'.auto
              /\ N > 0 => (out'.auto <=> now - last_auto_refresh >= N)
              /\ out'.auto => (last_auto_refresh' = now /\ now - last_auto_refresh >= N)
              /\ ~out'.auto => last_auto_refresh' = last_auto_refresh]_vars

\* C17 witness: a call with interval 1 triggered an auto refresh one second
\* after the start, and the next one is due a second later
C17_Witness ==
    /\ out.how # "none" /\ out.auto
    /\ out.call.auto_refresh = 1
    /\ now = StartTime + 1 /\ last_auto_refresh = now

-----------------------------------------------------------------------------
(* The nodes without state, continued.                                       *)

\* C18: fix_data_type with force_float32 and fix_problematic_shapes set
\* converts the shapes (1, 1, H, W, C), (B, 1, H, W) and (B, 3, H, W) to a
\* float32 tensor of four dimensions, batch, height, width and channels in
\* this order, for every B, H, W >= 1; and the report says the repair
\* succeeded exactly when the result has four dimensions, the last of them
\* 3, and dtype float32.
C18_ProblemShapesFixed ==
    (NodeReturned("fix_data_type") /\ nodeCall.force_float32 /\ nodeCall.fix_problematic_shapes) =>
        LET s == nodeCall.image.shape
            r == nodeResult.image
            succeeded == \E i \in 1..Len(nodeResult.report) : nodeResult.report[i] = "repair succeeded"
        IN  /\ (Len(s) = 5 /\ s[1] = 1 /\ s[2] = 1) =>
                   (r.dtype = "float32" /\ r.shape = <<1, s[3], s[4], s[5]>>)
            /\ (Len(s) = 4 /\ s[2] = 1) =>
                   (r.dtype = "float32" /\ Len(r.shape) = 4 /\ SubSeq(r.shape, 1, 3) = <<s[1], s[3], s[4]>>)
            /\ (Len(s) = 4 /\ s[2] = 3) =>
                   (r.dtype = "float32" /\ r.shape = <<s[1], s[3], s[4], 3>>)
            /\ succeeded <=> (Len(r.shape) = 4 /\ r.shape[Len(r.shape)] = 3 /\ r.dtype = "float32")

\* C19: universal_output uses the input data whenever any_input is
\* connected: the input is returned on one of the three data outputs and the
\* status carries the marker of input data; fallback data and the marker of
\* fallback data are produced only when any_input is None, so the two
\* markers never appear in the same status.
C19_InputUsedWhenConnected ==
    NodeReturned("universal_output") =>
        LET marks == SeqRange(nodeResult.mode_info)
            outputs == {nodeResult.image, nodeResult.latent, nodeResult.mask}
        IN  /\ nodeCall.any_input # NoneValue =>
                   (nodeCall.any_input \in outputs /\ "using input data" \in marks)
            /\ "using fallback data" \in marks => nodeCall.any_input = NoneValue
            /\ ~("using input data" \in marks /\ "using fallback data" \in marks)

\* C20: advanced_switch in mode auto returns image_A if connected, else
\* image_B if connected, else a blank (1, 512, 512, 3) image, independent of
\* auto_fallback; in mode A or B with auto_fallback = false it never returns
\* the non-selected image and returns the blank image when the selected one
\* is missing, even if the other is connected; with auto_fallback = true it
\* returns the other image in that case.
C20_AdvancedSwitch ==
    NodeReturned("advanced_switch") =>
        LET A == nodeCall.image_A
            B == nodeCall.image_B
            blank == [kind |-> "zeros", shape |-> <<1, 512, 512, 3>>, dtype |-> "float32"]
            selected == IF nodeCall.switch_mode = "A" THEN A ELSE B
            other == IF nodeCall.switch_mode = "A" THEN B ELSE A
        IN  IF nodeCall.switch_mode = "auto"
            THEN nodeResult.image = IF A # NoneValue THEN A ELSE IF B # NoneValue THEN B ELSE blank
            ELSE IF selected # NoneValue THEN nodeResult.image = selected
            ELSE IF nodeCall.auto_fallback /\ other # NoneValue THEN nodeResult.image = other
            ELSE nodeResult.image = blank

\* C20 witness: mode B without fallback, only image_A connected, and the
\* blank image came out
C20_Witness ==
    /\ NodeReturned("advanced_switch")
    /\ nodeCall.switch_mode = "B" /\ ~nodeCall.auto_fallback
    /\ nodeCall.image_A = InputImage("x") /\ nodeCall.image_B = NoneValue
    /\ nodeResult.image = BlankImage

-----------------------------------------------------------------------------
(* AdvancedImageSaver: a batch with images that cannot be saved.            *)

\* C21: a failure while saving one image of a batch is contained: save_images
\* still saves every other image and returns; the report has one error line
\* per failed image and lists exactly the files that were written; each
\* written file has the number start + batch index, start being the 起始序号
\* of the report, so a failure leaves a gap and no later file is renumbered.
C21_PartialFailureContained ==
    [][(saveCall'.op = "save"
        /\ \E k \in 1..Len(saveResult'.details) : saveResult'.details[k].line = "configuration") =>
          LET c == saveCall'
              details == saveResult'.details
              lines(kinds) == {k \in 1..Len(details) : details[k].line \in kinds}
              start == details[CHOOSE k \in lines({"configuration"}) : TRUE].start.n
              good == {i \in 1..Len(c.images) : c.images[i] # BadImage}
              bad == {i \in 1..Len(c.images) : c.images[i] = BadImage}
              name(i) == [prefix |-> c.filename_prefix, num_part |-> Format05d(start + i - 1),
                          ext |-> Lower(c.image_format)]
              changed == {f \in DOMAIN saveFiles' : f \notin DOMAIN saveFiles \/ saveFiles'[f] # saveFiles[f]}
          IN  /\ saveResult'.how = "returned"
              /\ Cardinality(lines({"image failed"})) = Cardinality(bad)
              /\ {details[k].image : k \in lines({"image failed"})} = bad
              /\ {details[k].file : k \in lines({"saved", "file"})} = {name(i) : i \in good}
              /\ \A i \in good :
                     \E f \in DOMAIN saveFiles' :
                         FileBasename(f) = name(i) /\ saveFiles'[f].image = c.images[i]
              /\ {FileBasename(f) : f \in changed} \subseteq {name(i) : i \in good}
              /\ DOMAIN saveFiles \subseteq DOMAIN saveFiles']_vars

\* C21 witness: the second of three images failed in an empty directory; the
\* files 00001 and 00003 hold the first and the third image, no file 00002
\* exists, and the report has the error line of image 2
C21_Witness ==
    /\ saveCall.op = "save" /\ saveCall.images = <<"x", BadImage, "y">>
    /\ saveResult.how = "returned"
    /\ \E k \in 1..Len(saveResult.details) :
           saveResult.details[k] = [line |-> "image failed", image |-> 2]
    /\ LET file(n) == FilePath(OutputDir, "image", Format05d(n), "png")
       IN  /\ DOMAIN saveFiles = {file(1), file(3)}
           /\ saveFiles[file(1)].image = "x"
           /\ saveFiles[file(3)].image = "y"

\* ---- end: node properties

====
